---- MODULE Spec2Model ----
(***************************************************************************)
(* Model of the business-report cleaning scripts: the scalar parsers       *)
(* (parse_currency, parse_number, parse_percentage), the column-wise       *)
(* pandas cleaners, and the cleaning/derivation pipelines built on them.   *)
(*                                                                         *)
(* Text is a sequence of one-character strings.  Three characters are      *)
(* written by name: "GBP" is the pound sign U+00A3, "Acirc" is U+00C2      *)
(* (the first character of a mis-decoded pound sign).                      *)
(* A Python/numpy float is a record: [k |-> "fin", n, d] is the rational   *)
(* n/d in lowest terms (binary rounding is not modelled), [k |-> "nan"]    *)
(* is NaN, [k |-> "inf", n] is +/- infinity by the sign of n.              *)
(***************************************************************************)
EXTENDS Integers, Sequences, FiniteSets, TLC

(* ------------------------------ floats --------------------------------- *)

Abs(x) == IF x < 0 THEN -x ELSE x

RECURSIVE GCD(_, _)
GCD(a, b) == IF b = 0 THEN a ELSE GCD(b, a % b)

\* The rational n/d (d # 0) in lowest terms with a positive denominator.
Fin(n, d) ==
    LET g == GCD(Abs(n), Abs(d))
        s == IF d < 0 THEN -1 ELSE 1
    IN  [k |-> "fin", n |-> (s * n) \div g, d |-> Abs(d) \div g]

NaN == [k |-> "nan", n |-> 0, d |-> 1]
Inf(sign) == [k |-> "inf", n |-> sign, d |-> 1]
Zero == Fin(0, 1)

IsFin(x) == x.k = "fin"
IsNaN(x) == x.k = "nan"
\* np.isfinite
isfinite(x) == x.k = "fin"
\* Series.notna / pd.notna on a float
notna(x) == x.k # "nan"

Sign(x) == IF x.n > 0 THEN 1 ELSE IF x.n < 0 THEN -1 ELSE 0

\* x > 0 as numpy evaluates it: False for NaN
GtZero(x) == x.k # "nan" /\ x.n > 0
LtZero(x) == x.k # "nan" /\ x.n < 0

\* x > c on a float column: False for NaN
Gt(x, c) == x.k \in {"fin", "inf"} /\ (IF x.k = "inf" THEN x.n > 0 ELSE x.n > c * x.d)

\* a / b on float64 arrays: 0/0 is NaN, x/0 is +/-inf, no exception
FDiv(a, b) ==
    IF IsNaN(a) \/ IsNaN(b) THEN NaN
    ELSE IF IsFin(a) /\ IsFin(b)
         THEN IF b.n = 0
              THEN IF a.n = 0 THEN NaN ELSE Inf(Sign(a))
              ELSE Fin(a.n * b.d, a.d * b.n)
    ELSE IF IsFin(a) THEN Zero                          \* fin / inf
    ELSE IF IsFin(b) THEN Inf(Sign(a) * (IF b.n < 0 THEN -1 ELSE 1))
    ELSE NaN                                            \* inf / inf

FMul(a, b) ==
    IF IsNaN(a) \/ IsNaN(b) THEN NaN
    ELSE IF IsFin(a) /\ IsFin(b) THEN Fin(a.n * b.n, a.d * b.d)
    ELSE IF Sign(a) * Sign(b) = 0 THEN NaN              \* 0 * inf
    ELSE Inf(Sign(a) * Sign(b))

FAdd(a, b) ==
    IF IsNaN(a) \/ IsNaN(b) THEN NaN
    ELSE IF IsFin(a) /\ IsFin(b) THEN Fin(a.n * b.d + b.n * a.d, a.d * b.d)
    ELSE IF IsFin(a) THEN b
    ELSE IF IsFin(b) THEN a
    ELSE IF a.n = b.n THEN a ELSE NaN

Hundred == Fin(100, 1)
One == Fin(1, 1)

\* Series.round(2): to the nearest hundredth, ties to even; NaN and inf pass
round2(x) ==
    IF ~IsFin(x) THEN x
    ELSE LET m == x.n * 100
             q == m \div x.d
             r == m - q * x.d
         IN  IF 2 * r < x.d THEN Fin(q, 100)
             ELSE IF 2 * r > x.d THEN Fin(q + 1, 100)
             ELSE IF q % 2 = 0 THEN Fin(q, 100) ELSE Fin(q + 1, 100)

(* ------------------------------- text ---------------------------------- *)

Digit == {"0", "1", "2", "3", "4", "5", "6", "7", "8", "9"}

DigitVal(c) ==
    CASE c = "0" -> 0 [] c = "1" -> 1 [] c = "2" -> 2 [] c = "3" -> 3
      [] c = "4" -> 4 [] c = "5" -> 5 [] c = "6" -> 6 [] c = "7" -> 7
      [] c = "8" -> 8 [] c = "9" -> 9

IsSpace(c) == c = " "

RECURSIVE lstrip(_)
lstrip(s) == IF s # <<>> /\ IsSpace(Head(s)) THEN lstrip(Tail(s)) ELSE s

RECURSIVE rstrip(_)
rstrip(s) ==
    IF s # <<>> /\ IsSpace(s[Len(s)]) THEN rstrip(SubSeq(s, 1, Len(s) - 1)) ELSE s

\* str.strip()
strip(s) == rstrip(lstrip(s))

\* str.replace(c, '') for a one-character c, and re.sub(r'[..]', '', s)
RemoveChars(s, cs) == SelectSeq(s, LAMBDA c : c \notin cs)

\* str.replace(old, '') for a two-character old
RECURSIVE RemovePair(_, _, _)
RemovePair(s, a, b) ==
    IF Len(s) < 2 THEN s
    ELSE IF s[1] = a /\ s[2] = b THEN RemovePair(SubSeq(s, 3, Len(s)), a, b)
    ELSE <<s[1]>> \o RemovePair(Tail(s), a, b)

AllDigits(s) == \A i \in 1..Len(s) : s[i] \in Digit

RECURSIVE DigitsVal(_)
DigitsVal(s) ==
    IF s = <<>> THEN 0 ELSE DigitsVal(SubSeq(s, 1, Len(s) - 1)) * 10 + DigitVal(s[Len(s)])

RECURSIVE Pow10(_)
Pow10(e) == IF e = 0 THEN 1 ELSE 10 * Pow10(e - 1)

Dots(s) == {i \in 1..Len(s) : s[i] = "."}

\* The value of an unsigned decimal literal (digits, at most one point, at
\* least one digit), or NaN-tagged failure.
Failed == [ok |-> FALSE, v |-> NaN]
Parsed(v) == [ok |-> TRUE, v |-> v]

Decimal(s) ==
    IF Cardinality(Dots(s)) > 1 THEN Failed
    ELSE LET p  == IF Dots(s) = {} THEN Len(s) + 1 ELSE CHOOSE i \in Dots(s) : TRUE
             ip == SubSeq(s, 1, p - 1)
             fp == SubSeq(s, p + 1, Len(s))
         IN  IF AllDigits(ip) /\ AllDigits(fp) /\ Len(ip) + Len(fp) > 0
             THEN Parsed(Fin(DigitsVal(ip) * Pow10(Len(fp)) + DigitsVal(fp),
                             Pow10(Len(fp))))
             ELSE Failed

Negate(r) == IF r.ok /\ IsFin(r.v) THEN Parsed(Fin(-r.v.n, r.v.d)) ELSE r

\* Python float(str): surrounding whitespace, an optional sign, a decimal
\* literal or nan (inf, exponents and digit-group underscores use characters
\* outside the alphabet of the modelled cells).  ok = FALSE is ValueError.
float(s) ==
    LET t    == strip(s)
        neg  == t # <<>> /\ Head(t) = "-"
        body == IF t # <<>> /\ Head(t) \in {"-", "+"} THEN Tail(t) ELSE t
    IN  IF body = <<"n", "a", "n">> THEN Parsed(NaN)
        ELSE IF neg THEN Negate(Decimal(body)) ELSE Decimal(body)

\* Python int(str): surrounding whitespace, an optional sign, digits only.
int(s) ==
    LET t    == strip(s)
        neg  == t # <<>> /\ Head(t) = "-"
        body == IF t # <<>> /\ Head(t) \in {"-", "+"} THEN Tail(t) ELSE t
    IN  IF body # <<>> /\ AllDigits(body)
        THEN Parsed(Fin(IF neg THEN -DigitsVal(body) ELSE DigitsVal(body), 1))
        ELSE Failed

(* A value held in a DataFrame cell or passed to a parser: a str or a float. *)
Str(s) == [k |-> "str", s |-> s, n |-> 0, d |-> 1]
Num(x) == [k |-> x.k, s |-> <<>>, n |-> x.n, d |-> x.d]
Missing == Num(NaN)
IsStr(v) == v.k = "str"
AsFloat(v) == [k |-> v.k, n |-> v.n, d |-> v.d]

\* pd.read_csv on one cell of a text column: the empty cell is NaN
read_csv_cell(t) == IF t = <<>> THEN Missing ELSE Str(t)

DigitChar(m) == CHOOSE c \in Digit : DigitVal(c) = m

RECURSIVE IntStr(_)
IntStr(m) == IF m < 10 THEN <<DigitChar(m)>> ELSE IntStr(m \div 10) \o <<DigitChar(m % 10)>>

\* The digits after the point of m/10^e, e digits, trailing zeros dropped
RECURSIVE FracStr(_, _)
FracStr(m, e) ==
    IF e = 0 \/ m = 0 THEN <<>>
    ELSE <<DigitChar(m \div Pow10(e - 1))>> \o FracStr(m % Pow10(e - 1), e - 1)

\* The number of decimal places x needs, up to 4 (5: it is no such decimal)
Places(x) == CHOOSE e \in 0..5 : /\ (e = 5 \/ Pow10(e) % x.d = 0)
                                 /\ \A f \in 0..(e - 1) : Pow10(f) % x.d # 0

\* str(x) of a number read from a file: "200" in an int64 column, "12.7",
\* "-50.5" (a float64 column writes a whole number as "200.0", which reads
\* back as the same number)
str_num(x) ==
    LET e == Places(x)
        m == (Abs(x.n) * Pow10(e)) \div x.d
    IN  (IF x.n < 0 THEN <<"-">> ELSE <<>>)
        \o IntStr(m \div Pow10(e))
        \o (IF e = 0 THEN <<>> ELSE <<".">> \o FracStr(m % Pow10(e), e))

\* Series.astype(str) on one cell: the text, 'nan' for NaN, str(x) for a number
astype_str(v) ==
    IF IsStr(v) THEN v.s
    ELSE IF v.k = "fin" /\ Places(v) < 5 THEN str_num(v)
    ELSE <<"n", "a", "n">>

\* Series.replace('nan', np.nan): a whole-value match
replace_nan(s) == IF s = <<"n", "a", "n">> THEN Missing ELSE Str(s)

\* pd.to_numeric(errors='coerce') on one cell: what does not parse is NaN
to_numeric(v) ==
    IF ~IsStr(v) THEN v
    ELSE LET r == float(v.s) IN IF r.ok THEN Num(r.v) ELSE Missing

(* ---------------------------- scalar parsers ---------------------------- *)

\* What a call returns: the value, or the exception that escaped it.
Return(v) == [exc |-> "none", v |-> v]

\* The float a try: float(cleaned) / except: return 0.0 block returns
FloatOrZero(cleaned) ==
    LET r == float(cleaned) IN IF r.ok THEN Return(Num(r.v)) ELSE Return(Num(Zero))

\* analyze-best-sellers.py parse_currency; value is a str from csv.DictReader
bs_parse_currency(value) ==
    IF value.s = <<>> \/ strip(value.s) = <<>> THEN Return(Num(Zero))
    ELSE FloatOrZero(RemoveChars(strip(value.s), {"GBP", ","}))

\* analyze-best-sellers.py parse_number
bs_parse_number(value) ==
    IF value.s = <<>> \/ strip(value.s) = <<>> THEN Return(Num(Zero))
    ELSE LET r == int(RemoveChars(strip(value.s), {","}))
         IN  IF r.ok THEN Return(Num(r.v)) ELSE Return(Num(Zero))

\* weekly-sales-comparison.py parse_currency; value is a str, NaN or a
\* number, which str(value) writes out.  The source removes the two-character
\* text U+00C2 U+00A3, not a lone U+00A3.
wsc_parse_currency(value) ==
    IF value.k = "nan" \/ value = Str(<<>>) THEN Return(Num(Zero))
    ELSE FloatOrZero(strip(RemoveChars(RemovePair(astype_str(value), "Acirc", "GBP"),
                                       {","})))

\* weekly-sales-comparison.py parse_percentage
wsc_parse_percentage(value) ==
    IF value.k = "nan" \/ value = Str(<<>>) THEN Return(Num(Zero))
    ELSE FloatOrZero(strip(RemoveChars(astype_str(value), {"%"})))

(* ------------------- column-wise cleaners, one cell -------------------- *)

\* df[col].astype(str).str.replace(c1, '')...replace('nan', np.nan), then
\* pd.to_numeric(errors='coerce')
StrReplaceToNumeric(v, cs) == to_numeric(replace_nan(RemoveChars(astype_str(v), cs)))

\* A percentage cleaner that clips what it reads to 100
clean_percentage_cell_clipped(v) ==
    LET x == StrReplaceToNumeric(v, {"%"})
    IN  IF Gt(x, 100) THEN Num(Hundred) ELSE x

\* analyze_business_report.py clean_percentage_columns (the same statement in
\* analyze_new_report.py clean_data_types and analyze_business_report_updated.py)
clean_percentage_cell(v) == StrReplaceToNumeric(v, {"%"})

\* A currency cleaner that reads the amount as pence
clean_currency_cell_pence(v) ==
    LET x == StrReplaceToNumeric(v, {"GBP", ","})
    IN  Num(FDiv(AsFloat(x), Hundred))

\* analyze_business_report.py clean_currency_columns
clean_currency_cell(v) == StrReplaceToNumeric(v, {"GBP", ","})

\* analyze_new_report.py clean_data_types, currency columns: quotes go too
anr_clean_currency_cell(v) == StrReplaceToNumeric(v, {"GBP", ",", "\""})

\* analyze_business_report.py clean_numeric_columns and
\* traffic_conversion_analysis.py clean_data: pd.to_numeric alone
clean_numeric_cell(v) == to_numeric(v)

\* analyze_new_report.py clean_data_types, sessions and page views (the same
\* in traffic_conversion_analysis_report3.py clean_data for sessions)
anr_clean_numeric_cell(v) == StrReplaceToNumeric(v, {","})

(* ------------------------------ the state ------------------------------ *)

VARIABLES
    parts,    \* the cell under test, by its parts, with the number it writes
    fn,       \* the parser applied to it ("none" before the call)
    result,   \* what the call returned
    script,   \* the script being run
    csv,      \* the rows of its input file, as text
    header,   \* the header row of the file: the columns it names
    df,       \* its DataFrame (for analyze-best-sellers.py: products)
    passed,   \* the frame handed to the cleaning or derivation function that
              \* ran last, as that object is now (<<>>: no such call)
    pc,       \* the statement of the script reached
    err,      \* the exception that ended the run, "none" otherwise
    out,      \* the rows written to the output file
    issues,   \* the list identify_data_quality_issues returned
    rownum,   \* analyze-best-sellers.py: the number of rows the loop has read
    run,      \* a runner script (the menus, csv_to_json.py): its run so far
    tags,     \* check_balance.py / analyze_expanded.py: the scan of one file
    bf,       \* backfill_competitive_titles.py: the tables and main()'s loop
    wk,       \* weekly-sales-comparison.py compare_weeks: weeks and result
    seg       \* the quadrant segmentations: the frame and its categories

parseVars == <<parts, fn, result>>
pipeVars == <<script, csv, header, df, passed, pc, err, out, issues, rownum>>
toolVars == <<run, tags, bf, wk, seg>>
vars ==
    <<parts, fn, result, script, csv, header, df, passed, pc, err, out, issues, rownum,
      run, tags, bf, wk, seg>>

\* A program that is not the one being run holds nothing
NotRun == [prog |-> "none"]

ToolsIdle == run = NotRun /\ tags = NotRun /\ bf = NotRun /\ wk = NotRun /\ seg = NotRun

(* --------------------------- cells under test --------------------------- *)

NoVal == [k |-> "none", n |-> 0, d |-> 1]

\* The bodies of the cells: the text, the number it writes (NoVal: none) and
\* whether that text is a count ("int": digits and thousands separators), a
\* decimal ("dec": it holds a decimal point) or no number ("none").
Bodies ==
    { [txt |-> <<>>, val |-> NoVal, kind |-> "none"],
      [txt |-> <<"0">>, val |-> Fin(0, 1), kind |-> "int"],
      [txt |-> <<"5", "0">>, val |-> Fin(50, 1), kind |-> "int"],
      [txt |-> <<"1", ",", "0", "0", "0">>, val |-> Fin(1000, 1), kind |-> "int"],
      [txt |-> <<"1", ",", "2", "3", "4", ".", "5", "6">>,
       val |-> Fin(123456, 100), kind |-> "dec"],
      [txt |-> <<"5", "0", ".", "0", "0">>, val |-> Fin(50, 1), kind |-> "dec"],
      [txt |-> <<"1", "2", ".", "7">>, val |-> Fin(127, 10), kind |-> "dec"],
      [txt |-> <<"3", ".", "9">>, val |-> Fin(39, 10), kind |-> "dec"],
      [txt |-> <<"3", "7", ".", "5">>, val |-> Fin(375, 10), kind |-> "dec"],
      [txt |-> <<"x">>, val |-> NoVal, kind |-> "none"] }

Prefixes == {<<>>, <<"GBP">>, <<"Acirc", "GBP">>}
Signs == {<<>>, <<"-">>}
Suffixes == {<<>>, <<"%">>}
Pads == {<<>>, <<" ">>}

Parts == [pad : Pads, pre : Prefixes, sign : Signs, body : Bodies, suf : Suffixes]

TextOf(p) == p.pad \o p.pre \o p.sign \o p.body.txt \o p.suf \o p.pad

\* The number the cell writes, sign applied
ValOf(p) ==
    IF p.sign = <<"-">> THEN Fin(-p.body.val.n, p.body.val.d) ELSE p.body.val

Idle == [exc |-> "none", v |-> Missing]

InitParse ==
    /\ parts \in Parts
    /\ fn = "none"
    /\ result = Idle
    /\ script = "none"
    /\ csv = <<>>
    /\ header = [sku |-> TRUE, sales |-> TRUE, sessions |-> <<>>]
    /\ df = <<>>
    /\ passed = <<>>
    /\ pc = "idle"
    /\ err = "none"
    /\ out = <<>>
    /\ issues = <<>>
    /\ rownum = 0
    /\ ToolsIdle

\* One call of a parser on the cell; the scalar parsers of
\* analyze-best-sellers.py get the str csv.DictReader read, the others the
\* value pd.read_csv read.
Call(name, r) ==
    /\ fn = "none"
    /\ fn' = name
    /\ result' = r
    /\ UNCHANGED <<parts, pipeVars, toolVars>>

CellParseCurrencyBS == Call("bs_parse_currency", bs_parse_currency(Str(TextOf(parts))))
CellParseNumberBS == Call("bs_parse_number", bs_parse_number(Str(TextOf(parts))))
CellParseCurrencyWSC ==
    Call("wsc_parse_currency", wsc_parse_currency(read_csv_cell(TextOf(parts))))
CellParsePercentageWSC ==
    Call("wsc_parse_percentage", wsc_parse_percentage(read_csv_cell(TextOf(parts))))
CellCleanPercentageColumns ==
    Call("clean_percentage_columns",
         Return(clean_percentage_cell(read_csv_cell(TextOf(parts)))))
CellCleanCurrencyColumns ==
    Call("clean_currency_columns",
         Return(clean_currency_cell(read_csv_cell(TextOf(parts)))))
CellCleanDataTypesCurrency ==
    Call("clean_data_types_currency",
         Return(anr_clean_currency_cell(read_csv_cell(TextOf(parts)))))
CellCleanNumericColumns ==
    Call("clean_numeric_columns",
         Return(clean_numeric_cell(read_csv_cell(TextOf(parts)))))
CellCleanDataNumeric ==
    Call("clean_data_numeric", Return(clean_numeric_cell(read_csv_cell(TextOf(parts)))))
CellCleanDataTypesNumeric ==
    Call("clean_data_types_numeric",
         Return(anr_clean_numeric_cell(read_csv_cell(TextOf(parts)))))

NextParse ==
    \/ CellParseCurrencyBS
    \/ CellParseNumberBS
    \/ CellParseCurrencyWSC
    \/ CellParsePercentageWSC
    \/ CellCleanPercentageColumns
    \/ CellCleanCurrencyColumns
    \/ CellCleanDataTypesCurrency
    \/ CellCleanNumericColumns
    \/ CellCleanDataNumeric
    \/ CellCleanDataTypesNumeric

SpecParse == InitParse /\ [][NextParse]_vars

(* ----------------------------- input files ----------------------------- *)

\* The most rows an input file holds.
MaxRows == 2

T_200 == <<"2", "0", "0">>
T_1000 == <<"1", ",", "0", "0", "0">>
T_50 == <<"5", "0">>
GBP_1000 == <<"GBP", "1", ",", "0", "0", "0", ".", "0", "0">>
GBP_500 == <<"GBP", "5", "0", "0", ".", "0", "0">>
GBP_0 == <<"GBP", "0", ".", "0", "0">>
GBP_10 == <<"GBP", "1", "0", ".", "0", "0">>
GBP_neg50 == <<"GBP", "-", "5", "0", ".", "0", "0">>
Pct_95 == <<"9", "5", "%">>
Pct_150 == <<"1", "5", "0", "%">>
GBP_12_50 == <<"GBP", "1", "2", ".", "5", "0">>
Pct_99_5 == <<"9", "9", ".", "5", "%">>
SkuA == <<"A", "1">>
SkuB == <<"B", "2", " ", "P", "r", "i", "m", "e">>
SkuC == <<"C", "3">>
AsinA == <<"X", "1">>
AsinB == <<"X", "2">>

RawRow(sku, asin, sessions, units, sales, buy_box) ==
    [sku |-> sku, asin |-> asin, sessions |-> sessions, units |-> units,
     sales |-> sales, buy_box |-> buy_box]

\* The rows an input file is made of: columns SKU, (Child) ASIN, Sessions -
\* Total, Units ordered, Ordered Product Sales, Featured Offer (Buy Box)
\* percentage, each cell as the text in the file.
RowSamples ==
    { RawRow(SkuA, AsinA, T_200, T_50, GBP_1000, Pct_95),
      RawRow(SkuB, AsinB, T_1000, T_50, GBP_500, Pct_95),
      RawRow(SkuB, AsinB, <<"0">>, <<"0">>, GBP_0, <<>>),
      RawRow(<<>>, <<>>, <<"1", "0">>, <<"1">>, GBP_10, Pct_95),
      RawRow(<<>>, AsinA, T_200, T_50, GBP_1000, Pct_95),
      RawRow(SkuC, <<>>, <<"3">>, <<"1">>, GBP_10, Pct_150),
      RawRow(SkuA, AsinA, <<"0">>, <<"5">>, GBP_10, Pct_95),
      RawRow(SkuA, AsinA, T_200, <<"0">>, GBP_0, Pct_95),
      RawRow(SkuA, AsinA, T_200, T_50, <<>>, Pct_95),
      RawRow(SkuB, AsinB, <<>>, T_50, GBP_10, Pct_95),
      RawRow(SkuA, AsinA, T_200, <<>>, GBP_10, <<>>),
      RawRow(SkuB, AsinB, <<"x">>, <<"1">>, GBP_neg50, Pct_95),
      RawRow(SkuC, AsinA, <<"1">>, <<"5">>, GBP_10, Pct_95),
      RawRow(SkuA, AsinA, <<"-", "5">>, <<"1">>, GBP_10, Pct_95),
      RawRow(SkuB, AsinB, T_200, <<"-", "1">>, GBP_10, Pct_95),
      RawRow(SkuC, AsinB, <<"8">>, <<"2">>, GBP_12_50, Pct_99_5) }

Files == UNION {[1..n -> RowSamples] : n \in 1..MaxRows}

(* ------------------------------ header rows ----------------------------- *)

\* A header as a sequence of words and separators: "EN" is U+2013, "EM" is
\* U+2014, "acirc" "euro" "ldquo" are the three characters U+2013 shows as
\* when its UTF-8 bytes are decoded as cp1252.
SessionsTotal == <<"Sessions", " ", "EN", " ", "Total">>

SessionsHeaders ==
    { SessionsTotal,
      <<"Sessions", " ", "-", " ", "Total">>,
      <<"Sessions", " ", "EM", " ", "Total">>,
      <<"Sessions", " ", "acirc", "euro", "ldquo", " ", "Total">>,
      <<"Sessions", " ", " ", "EN", " ", "Total">>,
      <<"Sessions", " ", "EN", " ", "Total", " ">> }

\* The header of the report the scripts were written for
Standard == [sku |-> TRUE, sales |-> TRUE, sessions |-> SessionsTotal]

\* The header rows: the standard one, one without the SKU column, one without
\* the Ordered Product Sales column, and the other spellings of the sessions
\* column
Headers ==
    {Standard, [Standard EXCEPT !.sku = FALSE], [Standard EXCEPT !.sales = FALSE]}
    \cup {[Standard EXCEPT !.sessions = h] : h \in SessionsHeaders}

\* col.replace(U+2013, '-').replace(' ', '_').lower() on a header
normalise_word(w) ==
    CASE w = "EN" -> "-" [] w = " " -> "_" [] w = "Sessions" -> "sessions"
      [] w = "Total" -> "total" [] OTHER -> w

normalise(h) == [i \in 1..Len(h) |-> normalise_word(h[i])]

(* ------------------------------ DataFrames ------------------------------ *)

\* A column a frame does not hold (yet)
Absent == [k |-> "absent", s |-> <<>>, n |-> 0, d |-> 1]

\* dtype object: the column holds a str
IsObject(d, f) == \E j \in 1..Len(d) : IsStr(d[j][f])

\* df[f] = df[f].<Op>, cell by cell
Apply(d, f, Op(_)) == [j \in 1..Len(d) |-> [d[j] EXCEPT ![f] = Op(@)]]

\* for col in [...]: if col in df.columns: df[col] = df[col].<Op>
ApplyIfHeld(d, f, Op(_)) ==
    [j \in 1..Len(d) |-> [d[j] EXCEPT ![f] = IF @ = Absent THEN @ ELSE Op(@)]]

\* The frame without the column f
Without(d, f) == [j \in 1..Len(d) |-> [d[j] EXCEPT ![f] = Absent]]

Holds(d, f) == \A j \in 1..Len(d) : d[j][f] # Absent

\* df[mask]
Filter(d, Keep(_)) == SelectSeq(d, Keep)

\* A number as read_csv's tokenizer reads it; "nan" is one of its NA texts
csv_number(t) == IF t = <<"n", "a", "n">> THEN Failed ELSE float(t)

NumericColumn(rows, f) ==
    \A j \in 1..Len(rows) : rows[j][f] = <<>> \/ csv_number(rows[j][f]).ok

\* One cell as pd.read_csv types it: NaN when empty, a number when every
\* cell of its column is a number or empty, the text otherwise
read_csv_typed(rows, j, f) ==
    IF rows[j][f] = <<>> THEN Missing
    ELSE IF NumericColumn(rows, f) THEN Num(csv_number(rows[j][f]).v)
    ELSE Str(rows[j][f])

\* pd.read_csv: one frame row per file row, index 0..n-1 (here 1..n)
read_csv(rows) ==
    [j \in 1..Len(rows) |->
        [idx |-> j,
         sku |-> read_csv_cell(rows[j].sku),
         asin |-> read_csv_cell(rows[j].asin),
         sessions |-> read_csv_typed(rows, j, "sessions"),
         units |-> read_csv_typed(rows, j, "units"),
         sales |-> read_csv_typed(rows, j, "sales"),
         buy_box |-> read_csv_typed(rows, j, "buy_box"),
         is_prime |-> Absent,
         conversion_rate |-> Absent,
         avg_order_value |-> Absent,
         revenue_per_session |-> Absent,
         revenue_efficiency |-> Absent]]

\* str.lower() on the letters the SKUs use
lower(c) ==
    CASE c = "P" -> "p" [] c = "R" -> "r" [] c = "I" -> "i" [] c = "M" -> "m"
      [] c = "E" -> "e" [] OTHER -> c

Prime5 == <<"p", "r", "i", "m", "e">>

\* Series.str.contains('Prime', case=False, na=False) on one cell
contains_prime(v) ==
    /\ IsStr(v)
    /\ \E a \in 1..Len(v.s) :
          /\ a + 4 <= Len(v.s)
          /\ \A b \in 1..5 : lower(v.s[a + b - 1]) = Prime5[b]

Bool(b) == [k |-> "bool", s |-> <<>>, n |-> IF b THEN 1 ELSE 0, d |-> 1]

(* -------------------------- the scripts, common ------------------------- *)

\* pd.read_csv(file): the columns the header names, the sessions column
\* under the name the header gives it
Loaded ==
    LET d == read_csv(csv)
        d1 == IF header.sku THEN d ELSE Without(d, "sku")
    IN  IF header.sales THEN d1 ELSE Without(d1, "sales")

\* The frame as a script sees it that looks the sessions column up as name
Lookup(d, found) == IF found THEN d ELSE Without(d, "sessions")


Scripts ==
    {"analyze_business_report", "analyze_new_report", "analyze_best_sellers",
     "simple_performance_export", "enhanced_traffic_conversion_analysis",
     "traffic_conversion_analysis_report3", "analyze_business_report_updated"}

Init ==
    /\ parts = [pad |-> <<>>, pre |-> <<>>, sign |-> <<>>, suf |-> <<>>,
                body |-> [txt |-> <<>>, val |-> NoVal, kind |-> "none"]]
    /\ fn = "none"
    /\ result = Idle
    /\ script \in Scripts
    /\ csv \in Files
    /\ header \in Headers
    /\ (header = Standard \/ Len(csv) = 1)
    /\ df = <<>>
    /\ passed = <<>>
    /\ pc = "start"
    /\ err = "none"
    /\ out = <<>>
    /\ issues = <<>>
    /\ rownum = 0
    /\ ToolsIdle

At(name, at) == script = name /\ pc = at /\ err = "none"

\* A statement of main() that ran: the frame d it left in main()'s df, the
\* frame p the object it handed over holds now, and where main() is now
Ran(d, p, to) ==
    /\ df' = d
    /\ passed' = p
    /\ pc' = to
    /\ UNCHANGED <<parseVars, toolVars, script, csv, header, err, out, issues, rownum>>

\* A statement that hands no frame to a cleaning or derivation function
Step(d, to) == Ran(d, <<>>, to)

\* df = f(df) where f assigns df[col] = ... and returns df: the frame handed
\* over and the frame returned are one object
InPlace(d, to) == Ran(d, d, to)

\* df = f(df) where f builds the frame it returns (df.rename) and assigns
\* nothing into the one handed over
Fresh(d, to) == Ran(d, df, to)

\* An exception left the statement: the frame is as it was
Throw(e, to) ==
    /\ err' = e
    /\ pc' = to
    /\ passed' = <<>>
    /\ UNCHANGED <<parseVars, toolVars, script, csv, header, df, out, issues, rownum>>

(* ---------------------- analyze_business_report.py ---------------------- *)

abr == "analyze_business_report"

abr_load_and_examine_data == At(abr, "start") /\ Step(Loaded, "loaded")

\* df.rename(columns=column_mapping): the cells are untouched; a column whose
\* header is no key of the mapping keeps its name, and the frame then holds
\* no column of the new name
abr_clean_column_names ==
    At(abr, "loaded") /\ Fresh(Lookup(df, header.sessions = SessionsTotal), "named")

clean_percentage_columns ==
    At(abr, "named") /\ InPlace(ApplyIfHeld(df, "buy_box", clean_percentage_cell), "percent")

clean_currency_columns ==
    At(abr, "percent") /\ InPlace(ApplyIfHeld(df, "sales", clean_currency_cell), "currency")

clean_numeric_columns ==
    /\ At(abr, "currency")
    /\ InPlace(ApplyIfHeld(ApplyIfHeld(df, "sessions", clean_numeric_cell),
                         "units", clean_numeric_cell),
            "numeric")

\* df['sku'].str.contains(...): the .str accessor raises AttributeError on a
\* column that holds no str (every SKU missing).  base_sku and sku_category
\* are not modelled.
set_is_prime(d) == [j \in 1..Len(d) |-> [d[j] EXCEPT !.is_prime = Bool(contains_prime(d[j].sku))]]

extract_sku_info ==
    /\ At(abr, "numeric")
    /\ IF ~Holds(df, "sku") THEN Throw("KeyError", "raised")
       ELSE IF IsObject(df, "sku") THEN InPlace(set_is_prime(df), "sku_info")
       ELSE Throw("AttributeError", "raised")

\* np.where(den > 0, expr, 0) on one row
conversion_rate(sessions, units) ==
    IF GtZero(sessions) THEN FMul(FDiv(units, sessions), Hundred) ELSE Zero

avg_order_value(units, sales) ==
    IF GtZero(units) THEN FDiv(sales, units) ELSE Zero

revenue_per_session(sessions, sales) ==
    IF GtZero(sessions) THEN FDiv(sales, sessions) ELSE Zero

\* analyze_business_report.py calculate_derived_metrics (the quantile flags
\* high_conversion and high_revenue are not modelled)
derive_metrics(r) ==
    [r EXCEPT
        !.conversion_rate = Num(conversion_rate(AsFloat(r.sessions), AsFloat(r.units))),
        !.avg_order_value = Num(avg_order_value(AsFloat(r.units), AsFloat(r.sales))),
        !.revenue_per_session = Num(revenue_per_session(AsFloat(r.sessions), AsFloat(r.sales)))]

calculate_derived_metrics ==
    /\ At(abr, "sku_info")
    /\ IF Holds(df, "sessions") /\ Holds(df, "sales")
       THEN InPlace([j \in 1..Len(df) |-> derive_metrics(df[j])], "derived")
       ELSE Throw("KeyError", "raised")

isnull(v) == v.k = "nan"

Columns ==
    {"sku", "asin", "sessions", "units", "sales", "buy_box", "is_prime",
     "conversion_rate", "avg_order_value", "revenue_per_session", "revenue_efficiency"}

SameRow(a, b) == \A f \in Columns : a[f] = b[f]

\* df.duplicated().sum(): the rows equal to an earlier row
duplicated(d) == Cardinality({j \in 1..Len(d) : \E h \in 1..(j - 1) : SameRow(d[h], d[j])})

Issue(kind, field, count) == [kind |-> kind, field |-> field, n |-> count]

Maybe(cond, issue) == IF cond THEN <<issue>> ELSE <<>>

\* A quality pass whose numeric_cols list lacks units_ordered
quality_issues_without_units(d) ==
    Maybe(\E j \in 1..Len(d) : \E f \in Columns : isnull(d[j][f]), Issue("missing", "", 0))
    \o Maybe(duplicated(d) > 0, Issue("duplicate", "", duplicated(d)))
    \o Maybe(\E j \in 1..Len(d) : Gt(d[j].buy_box, 100), Issue("out_of_range", "buy_box", 0))
    \o Maybe(\E j \in 1..Len(d) : Gt(d[j].conversion_rate, 100),
             Issue("out_of_range", "conversion_rate", 0))
    \o Maybe(\E j \in 1..Len(d) : LtZero(d[j].sessions), Issue("negative", "sessions", 0))
    \o Maybe(\E j \in 1..Len(d) : LtZero(d[j].sales), Issue("negative", "sales", 0))

\* analyze_business_report.py identify_data_quality_issues: the list it
\* returns, in the order it appends
quality_issues(d) ==
    Maybe(\E j \in 1..Len(d) : \E f \in Columns : isnull(d[j][f]), Issue("missing", "", 0))
    \o Maybe(duplicated(d) > 0, Issue("duplicate", "", duplicated(d)))
    \o Maybe(\E j \in 1..Len(d) : Gt(d[j].buy_box, 100), Issue("out_of_range", "buy_box", 0))
    \o Maybe(\E j \in 1..Len(d) : Gt(d[j].conversion_rate, 100),
             Issue("out_of_range", "conversion_rate", 0))
    \o Maybe(\E j \in 1..Len(d) : LtZero(d[j].sessions), Issue("negative", "sessions", 0))
    \o Maybe(\E j \in 1..Len(d) : LtZero(d[j].units), Issue("negative", "units", 0))
    \o Maybe(\E j \in 1..Len(d) : LtZero(d[j].sales), Issue("negative", "sales", 0))

\* df.drop_duplicates(): the first of each group of equal rows
RECURSIVE DropDuplicates(_, _)
DropDuplicates(d, n) ==
    IF n = 0 THEN <<>>
    ELSE IF \E h \in 1..(n - 1) : SameRow(d[h], d[n]) THEN DropDuplicates(d, n - 1)
    ELSE Append(DropDuplicates(d, n - 1), d[n])

\* A quality pass that removes the duplicates it reports
identify_data_quality_issues_dropping ==
    /\ At(abr, "derived")
    /\ issues' = quality_issues(df)
    /\ df' = DropDuplicates(df, Len(df))
    /\ pc' = "checked"
    /\ passed' = <<>>
    /\ UNCHANGED <<parseVars, toolVars, script, csv, header, err, out, rownum>>

identify_data_quality_issues ==
    /\ At(abr, "derived")
    /\ issues' = quality_issues(df)
    /\ pc' = "checked"
    /\ passed' = <<>>
    /\ UNCHANGED <<parseVars, toolVars, script, csv, header, df, err, out, rownum>>

\* analyze_business_report.py generate_summary_stats: prime_stats.loc[True]
\* and .loc[False] raise KeyError unless both groups exist
generate_summary_stats ==
    /\ At(abr, "checked")
    /\ IF /\ \E j \in 1..Len(df) : df[j].is_prime = Bool(TRUE)
          /\ \E j \in 1..Len(df) : df[j].is_prime = Bool(FALSE)
       THEN Step(df, "summarised")
       ELSE Throw("KeyError", "raised")

Save(to) ==
    /\ out' = df
    /\ pc' = to
    /\ passed' = <<>>
    /\ UNCHANGED <<parseVars, toolVars, script, csv, header, df, err, issues, rownum>>

save_cleaned_data == At(abr, "summarised") /\ Save("saved")

(* --------------------- advanced_business_analysis.py -------------------- *)

aba == "advanced_business_analysis"

\* load_cleaned_data: pd.read_csv of the file analyze_business_report.py
\* saved; to_csv writes a float so that it reads back as the same float
aba_load_cleaned_data ==
    /\ At(abr, "saved")
    /\ script' = aba
    /\ df' = out
    /\ pc' = "loaded"
    /\ passed' = <<>>
    /\ UNCHANGED <<parseVars, toolVars, csv, header, err, out, issues, rownum>>

\* create_performance_dashboard, plot 6: the y axis "Revenue per Session"
revenue_efficiency(sessions, sales) == FDiv(sales, FAdd(sessions, One))

create_performance_dashboard ==
    /\ At(aba, "loaded")
    /\ InPlace([j \in 1..Len(df) |->
                [df[j] EXCEPT !.revenue_efficiency =
                    Num(revenue_efficiency(AsFloat(df[j].sessions), AsFloat(df[j].sales)))]],
            "dashboard")

(* ------------------------- analyze_new_report.py ------------------------ *)

anr == "analyze_new_report"

anr_load_and_clean_data == At(anr, "start") /\ Step(Loaded, "loaded")

anr_clean_column_names ==
    At(anr, "loaded") /\ Fresh(Lookup(df, header.sessions = SessionsTotal), "named")

\* clean_data_types: percentages, currency, then sessions and page views;
\* units_ordered is left as read
clean_data_types ==
    /\ At(anr, "named")
    /\ InPlace(ApplyIfHeld(ApplyIfHeld(ApplyIfHeld(df, "buy_box", clean_percentage_cell),
                                     "sales", anr_clean_currency_cell),
                         "sessions", anr_clean_numeric_cell),
            "typed")

\* calculate_metrics: a column the frame does not hold raises KeyError, a
\* units column that holds text makes the division raise TypeError; main()
\* catches every exception, prints it and returns None
calculate_metrics ==
    /\ At(anr, "typed")
    /\ IF ~Holds(df, "sessions") THEN Throw("KeyError", "failed")
       ELSE IF IsObject(df, "units") THEN Throw("TypeError", "failed")
       ELSE IF ~Holds(df, "sales") \/ ~Holds(df, "sku") THEN Throw("KeyError", "failed")
       ELSE IF ~IsObject(df, "sku") THEN Throw("AttributeError", "failed")
       ELSE InPlace(set_is_prime([j \in 1..Len(df) |-> derive_metrics(df[j])]), "derived")

\* generate_summary and identify_opportunities print; the frame is untouched
generate_summary == At(anr, "derived") /\ Step(df, "summarised")

identify_opportunities == At(anr, "summarised") /\ Step(df, "opportunities")

save_results == At(anr, "opportunities") /\ Save("saved")

(* ------------------------ analyze-best-sellers.py ----------------------- *)

bs == "analyze_best_sellers"

\* products[:100]
Top == 100

\* row.get(col, default) for a column the file does not hold
DefaultCount == Str(<<"0">>)
DefaultSales == Str(<<"GBP", "0">>)

\* row.get(col, default) on the columns the header names
row_get(r) ==
    [r EXCEPT
        !.sku = IF header.sku THEN @ ELSE <<>>,
        !.sales = IF header.sales THEN @ ELSE DefaultSales.s,
        !.sessions = IF header.sessions = SessionsTotal THEN @ ELSE DefaultCount.s]

\* The dict the loop body builds from one row
bs_product(r, j) ==
    LET units == FAdd(AsFloat(bs_parse_number(Str(r.units)).v),
                      AsFloat(bs_parse_number(DefaultCount).v))
        sales == FAdd(AsFloat(bs_parse_currency(Str(r.sales)).v),
                      AsFloat(bs_parse_currency(DefaultSales).v))
        sessions == FAdd(AsFloat(bs_parse_number(Str(r.sessions)).v),
                         AsFloat(bs_parse_number(DefaultCount).v))
    IN  [idx |-> j,
         sku |-> Str(strip(r.sku)),
         asin |-> Str(strip(r.asin)),
         sessions |-> Num(sessions),
         units |-> Num(units),
         sales |-> Num(sales),
         buy_box |-> Absent,
         is_prime |-> Absent,
         conversion_rate |->
             Num(IF GtZero(sessions) THEN FMul(FDiv(units, sessions), Hundred) ELSE Zero),
         avg_order_value |-> Absent,
         revenue_per_session |-> Absent,
         revenue_efficiency |-> Absent]

\* One pass of "for row in reader": rows without SKU or child ASIN are skipped
bs_read_row ==
    /\ At(bs, "start")
    /\ rownum < Len(csv)
    /\ rownum' = rownum + 1
    /\ LET p == bs_product(row_get(csv[rownum + 1]), rownum + 1)
       IN  df' = IF p.sku.s = <<>> \/ p.asin.s = <<>> THEN df ELSE Append(df, p)
    /\ passed' = <<>>
    /\ UNCHANGED <<parseVars, toolVars, script, csv, header, pc, err, out, issues>>

FLess(a, b) == a.n * b.d < b.n * a.d

\* x sorts before y under key=(sales_value, units_ordered), reverse=True
Before(x, y) ==
    \/ FLess(y.sales, x.sales)
    \/ (x.sales = y.sales /\ FLess(y.units, x.units))

\* list.sort(reverse=True) is stable: equal keys keep their order
RECURSIVE Insert(_, _)
Insert(sorted, x) ==
    IF sorted = <<>> THEN <<x>>
    ELSE IF Before(x, Head(sorted)) THEN <<x>> \o sorted
    ELSE <<Head(sorted)>> \o Insert(Tail(sorted), x)

RECURSIVE Sort(_)
Sort(seq) == IF seq = <<>> THEN <<>> ELSE Insert(Sort(SubSeq(seq, 1, Len(seq) - 1)), seq[Len(seq)])

Take(seq, m) == SubSeq(seq, 1, IF Len(seq) < m THEN Len(seq) ELSE m)

\* The statements after the loop: sort, top 100, the printed summary (its
\* average divides by len(top_100)), the CSV with conversion rounded to 2
bs_report ==
    /\ At(bs, "start")
    /\ rownum = Len(csv)
    /\ IF df = <<>> THEN Throw("ZeroDivisionError", "raised")
       ELSE /\ df' = Sort(df)
            /\ out' = [j \in 1..Len(Take(Sort(df), Top)) |->
                          [Sort(df)[j] EXCEPT !.conversion_rate = Num(round2(AsFloat(@)))]]
            /\ pc' = "saved"
            /\ passed' = <<>>
            /\ UNCHANGED <<parseVars, toolVars, script, csv, header, err, issues, rownum>>

(* ------ simple_performance_export.py, enhanced_traffic_conversion_analysis.py ------ *)

spe == "simple_performance_export"
etc == "enhanced_traffic_conversion_analysis"

\* Series.astype(float) on one cell: a str goes through float(), ValueError
\* when it does not parse
astype_float(v) == IF IsStr(v) THEN float(v.s) ELSE Parsed(AsFloat(v))

sessions_astype_float(v) == float(RemoveChars(astype_str(v), {","}))

sales_astype_float(v) ==
    IF IsStr(v) THEN float(RemoveChars(v.s, {"GBP", ","})) ELSE Parsed(AsFloat(v))

Valid(x) == notna(x) /\ isfinite(x)

KeepValid(r) == Valid(AsFloat(r.conversion_rate)) /\ Valid(AsFloat(r.avg_order_value))

\* load_and_clean_data, the same text in both files, on the frame read_csv
\* gave: the exception it lets out ("none": it returned) and the frame it
\* returns
load_and_clean_data(d) ==
    LET J == 1..Len(d)
        clean(r) ==
            LET sessions == sessions_astype_float(r.sessions).v
                units == astype_float(r.units).v
                sales == sales_astype_float(r.sales).v
            IN  [r EXCEPT
                    !.sessions = Num(sessions),
                    !.units = Num(units),
                    !.sales = Num(sales),
                    !.conversion_rate = Num(round2(FMul(FDiv(units, sessions), Hundred))),
                    !.avg_order_value = Num(round2(FDiv(sales, units)))]
    IN  IF ~Holds(d, "sessions")
        THEN [exc |-> "KeyError", d |-> <<>>]
        ELSE IF \E j \in J : ~sessions_astype_float(d[j].sessions).ok
        THEN [exc |-> "ValueError", d |-> <<>>]
        ELSE IF \E j \in J : ~astype_float(d[j].units).ok
        THEN [exc |-> "ValueError", d |-> <<>>]
        ELSE IF ~Holds(d, "sales")
        THEN [exc |-> "KeyError", d |-> <<>>]
        ELSE IF ~IsObject(d, "sales")
        THEN [exc |-> "AttributeError", d |-> <<>>]
        ELSE IF \E j \in J : ~sales_astype_float(d[j].sales).ok
        THEN [exc |-> "ValueError", d |-> <<>>]
        ELSE [exc |-> "none", d |-> Filter([j \in J |-> clean(d[j])], KeepValid)]

\* main(): df = load_and_clean_data(file_path)
Returned(r) == IF r.exc = "none" THEN Step(r.d, "cleaned") ELSE Throw(r.exc, "raised")

spe_load_and_clean_data ==
    At(spe, "start")
    /\ Returned(load_and_clean_data(Lookup(Loaded, header.sessions = SessionsTotal)))

etc_load_and_clean_data ==
    At(etc, "start")
    /\ Returned(load_and_clean_data(Lookup(Loaded, header.sessions = SessionsTotal)))

\* enhanced_traffic_conversion_analysis.py create_performance_dashboard, plot 6
etc_create_performance_dashboard ==
    /\ At(etc, "cleaned")
    /\ InPlace([j \in 1..Len(df) |->
                [df[j] EXCEPT !.revenue_per_session =
                    Num(FDiv(AsFloat(df[j].sales), AsFloat(df[j].sessions)))]],
            "dashboard")

(* ----------------- traffic_conversion_analysis_report3.py ---------------- *)

tcr3 == "traffic_conversion_analysis_report3"

tcr3_load_and_examine_data == At(tcr3, "start") /\ Step(Loaded, "loaded")

\* dropna(subset=['Sessions - Total', 'Units ordered', 'conversion_rate'])
HasCritical(r) == ~isnull(r.sessions) /\ ~isnull(r.units) /\ ~isnull(r.conversion_rate)

tcr3_clean(r) ==
    LET sessions == AsFloat(anr_clean_numeric_cell(r.sessions))
        units == AsFloat(clean_numeric_cell(r.units))
        sales == AsFloat(clean_currency_cell(r.sales))
    IN  [r EXCEPT
            !.sessions = Num(sessions),
            !.units = Num(units),
            !.sales = IF @ = Absent THEN @ ELSE Num(sales),
            !.conversion_rate = Num(conversion_rate(sessions, units)),
            !.avg_order_value =
                IF r.sales = Absent THEN @ ELSE Num(avg_order_value(units, sales))]

\* df.columns.str.strip() first; every statement but the dropna is under
\* "if col in df.columns", the dropna raises KeyError without the column
clean_data ==
    /\ At(tcr3, "loaded")
    /\ IF strip(header.sessions) = SessionsTotal
       THEN Ran(Filter([j \in 1..Len(df) |-> tcr3_clean(df[j])], HasCritical),
                [j \in 1..Len(df) |-> tcr3_clean(df[j])], "cleaned")
       ELSE Throw("KeyError", "raised")

(* ------------------- analyze_business_report_updated.py ----------------- *)

abru == "analyze_business_report_updated"

abru_read_csv == At(abru, "start") /\ Step(Loaded, "loaded")

\* df.columns = [col.replace(U+2013, '-').replace(' ', '_').lower() ...]
abru_clean_column_names ==
    /\ At(abru, "loaded")
    /\ Step(Lookup(df, normalise(header.sessions) = <<"sessions", "_", "-", "_", "total">>),
            "named")

abru_clean_percentage_columns ==
    At(abru, "named") /\ Step(ApplyIfHeld(df, "buy_box", clean_percentage_cell), "percent")

abru_clean_currency_columns ==
    At(abru, "percent") /\ Step(ApplyIfHeld(df, "sales", clean_currency_cell), "currency")

\* "Calculate metrics": each metric only if its columns are held; sessions
\* and units are used as read, and a column of text raises TypeError at > 0
abru_metrics(r) ==
    [r EXCEPT
        !.conversion_rate =
            IF r.sessions = Absent THEN @
            ELSE Num(conversion_rate(AsFloat(r.sessions), AsFloat(r.units))),
        !.avg_order_value =
            IF r.sales = Absent THEN @
            ELSE Num(avg_order_value(AsFloat(r.units), AsFloat(r.sales)))]

abru_calculate_metrics ==
    /\ At(abru, "currency")
    /\ IF (Holds(df, "sessions") /\ IsObject(df, "sessions")) \/ IsObject(df, "units")
       THEN Throw("TypeError", "raised")
       ELSE Step([j \in 1..Len(df) |-> abru_metrics(df[j])], "derived")

abru_extract_prime ==
    /\ At(abru, "derived")
    /\ IF ~Holds(df, "sku") THEN Throw("KeyError", "raised")
       ELSE IF IsObject(df, "sku") THEN Step(set_is_prime(df), "sku_info")
       ELSE Throw("AttributeError", "raised")

\* "Summary stats" prints the totals, 0 for a column the frame does not
\* hold; then df.to_csv
abru_save == At(abru, "sku_info") /\ Save("saved")

(* ------------------------------ the scripts ----------------------------- *)

Next ==
    \/ abr_load_and_examine_data
    \/ abr_clean_column_names
    \/ clean_percentage_columns
    \/ clean_currency_columns
    \/ clean_numeric_columns
    \/ extract_sku_info
    \/ calculate_derived_metrics
    \/ identify_data_quality_issues
    \/ generate_summary_stats
    \/ save_cleaned_data
    \/ aba_load_cleaned_data
    \/ create_performance_dashboard
    \/ anr_load_and_clean_data
    \/ anr_clean_column_names
    \/ clean_data_types
    \/ calculate_metrics
    \/ generate_summary
    \/ identify_opportunities
    \/ save_results
    \/ bs_read_row
    \/ bs_report
    \/ spe_load_and_clean_data
    \/ etc_load_and_clean_data
    \/ etc_create_performance_dashboard
    \/ tcr3_load_and_examine_data
    \/ clean_data
    \/ abru_read_csv
    \/ abru_clean_column_names
    \/ abru_clean_percentage_columns
    \/ abru_clean_currency_columns
    \/ abru_calculate_metrics
    \/ abru_extract_prime
    \/ abru_save

Spec == Init /\ [][Next]_vars

(* ------------------------ claims on the parsers ------------------------ *)

PoundOrBare == {<<>>, <<"GBP">>}

NoComma(t) == \A i \in 1..Len(t) : t[i] # ","

\* x truncated toward zero
TruncZero(x) == Fin(Sign(x) * (Abs(x.n) \div x.d), 1)

\* C5: both parse_currency implementations return the number a currency text
\* writes once the pound sign, the commas and the surrounding whitespace are
\* removed, negative values included.
C5_ParseCurrencyValue ==
    (/\ fn \in {"bs_parse_currency", "wsc_parse_currency"}
     /\ parts.pre \in PoundOrBare
     /\ parts.suf = <<>>
     /\ parts.body.kind # "none")
    => result = Return(Num(ValOf(parts)))

\* C6: every currency parser (both parse_currency functions and the
\* column-wise cleaners) returns 0.0, and raises nothing, for an empty text, a
\* whitespace-only text and a text whose remainder is no number.
C6_CurrencyDefaultsToZero ==
    (/\ fn \in {"bs_parse_currency", "wsc_parse_currency",
                "clean_currency_columns", "clean_data_types_currency"}
     /\ parts.pre \in PoundOrBare
     /\ (parts.body.kind = "none" \/ parts.suf # <<>>))
    => result = Return(Num(Zero))

\* C7: every percentage parser returns the number before the trailing % and,
\* for an empty cell, the missing marker, which is not 0.0.
C7_PercentageValueOrMissing ==
    fn \in {"wsc_parse_percentage", "clean_percentage_columns"}
    => /\ (/\ parts.pre = <<>>
           /\ parts.suf = <<"%">>
           /\ parts.body.kind # "none"
           /\ NoComma(parts.body.txt))
          => result = Return(Num(ValOf(parts)))
       /\ TextOf(parts) = <<>> => result = Return(Missing)

\* C8: every count parser removes the thousands separators before converting
\* and returns 0 for an empty cell.
C8_CountStripsCommas ==
    fn \in {"bs_parse_number", "clean_numeric_columns", "clean_data_types_numeric",
            "clean_data_numeric"}
    => /\ (parts.pre = <<>> /\ parts.suf = <<>> /\ parts.body.kind = "int")
          => result = Return(Num(ValOf(parts)))
       /\ TextOf(parts) = <<>> => result = Return(Num(Zero))

\* C9: parse_number on non-integer numeric text returns the value truncated
\* toward zero and raises nothing.
C9_CountTruncates ==
    (/\ fn = "bs_parse_number"
     /\ parts.pre = <<>>
     /\ parts.suf = <<>>
     /\ parts.body.kind = "dec")
    => result = Return(Num(TruncZero(ValOf(parts))))

(* ------------------------ claims on the scripts ------------------------- *)

\* The frame holds the derived columns of every row the script kept
Normalized ==
    /\ err = "none"
    /\ \/ script \in {abr, anr} /\ pc \in {"derived", "checked", "summarised", "opportunities", "saved"}
       \/ script = aba
       \/ script = abru /\ pc \in {"derived", "sku_info", "saved"}
       \/ script \in {spe, etc, tcr3} /\ pc \in {"cleaned", "dashboard"}
       \/ script = bs /\ pc = "saved"

Rows == 1..Len(df)

\* C1: in every script that derives it, a row's conversion_rate is
\* units / sessions * 100 when sessions > 0, exactly 0 when sessions = 0, and
\* not negative when sessions and units are not negative.
C1_ConversionRate ==
    \A j \in Rows :
        LET sessions == AsFloat(df[j].sessions)
            units == AsFloat(df[j].units)
            rate == AsFloat(df[j].conversion_rate)
        IN  df[j].conversion_rate # Absent =>
              /\ GtZero(sessions) => rate = FMul(FDiv(units, sessions), Hundred)
              /\ sessions = Zero => rate = Zero
              /\ (IsFin(sessions) /\ IsFin(units) /\ ~LtZero(sessions) /\ ~LtZero(units))
                    => ~LtZero(rate)

ZeroUnitRows == {j \in 1..Len(csv) : csv[j].units = <<"0">>}

\* C2: a row's avg_order_value is sales / units when units > 0 and exactly 0
\* when units = 0, and a row of the file with 0 units is in the normalized
\* frame with avg_order_value 0.
C2_AvgOrderValue ==
    /\ \A j \in Rows :
          LET units == AsFloat(df[j].units)
              sales == AsFloat(df[j].sales)
              aov == AsFloat(df[j].avg_order_value)
          IN  df[j].avg_order_value # Absent =>
                /\ GtZero(units) => aov = FDiv(sales, units)
                /\ units = Zero => aov = Zero
    /\ (Normalized /\ script # bs) =>
          \A j \in ZeroUnitRows :
              \E h \in Rows : df[h].idx = j /\ df[h].avg_order_value = Num(Zero)

PerSession(sessions, sales, value) ==
    /\ GtZero(sessions) => value = FDiv(sales, sessions)
    /\ sessions = Zero => value = Zero

\* C3: every column reported as revenue per session is sales / sessions when
\* sessions > 0 and 0 when sessions = 0.
C3_RevenuePerSession ==
    \A j \in Rows :
        LET sessions == AsFloat(df[j].sessions)
            sales == AsFloat(df[j].sales)
        IN  /\ df[j].revenue_per_session # Absent =>
                  PerSession(sessions, sales, AsFloat(df[j].revenue_per_session))
            /\ df[j].revenue_efficiency # Absent =>
                  PerSession(sessions, sales, AsFloat(df[j].revenue_efficiency))

Derived == {"conversion_rate", "avg_order_value", "revenue_per_session"}

\* C4: in analyze_business_report.py and analyze_new_report.py (and in what
\* advanced_business_analysis.py loads from the former) every derived metric a
\* row holds is a finite number, whatever the sessions, units and sales cells
\* of the row were.
C4_DerivedFinite ==
    script \in {abr, anr, aba} =>
        \A j \in Rows : \A f \in Derived : df[j][f] # Absent => isfinite(AsFloat(df[j][f]))

HasSku(cell) == IsStr(cell) /\ strip(cell.s) # <<>>

\* The script ran to the end of its cleaning: it saved its rows, or its
\* cleaner returned the frame the rest of the script reports on
Finished ==
    /\ err = "none"
    /\ (pc = "saved" \/ (script = tcr3 /\ pc = "cleaned"))

Emitted == IF pc = "saved" THEN out ELSE df

\* C10: what a pipeline emits is exactly the rows of the file that have a
\* SKU: every emitted row has one, and every row of the file that has one is
\* emitted.
C10_MissingSkuDropped ==
    Finished =>
        /\ \A h \in 1..Len(Emitted) : HasSku(Emitted[h].sku)
        /\ \A j \in 1..Len(csv) :
              strip(csv[j].sku) # <<>> => \E h \in 1..Len(Emitted) : Emitted[h].idx = j

(* ---------------------- claims on the quality pass ---------------------- *)

\* identify_data_quality_issues has returned (and main() has not failed since)
Checked == script = abr /\ pc \in {"checked", "summarised", "saved"} /\ err = "none"

IssuesOf(kind, field) ==
    {i \in 1..Len(issues) : issues[i].kind = kind /\ issues[i].field = field}

\* The file repeats a row, or two rows of the frame are equal
HasDuplicates ==
    \/ \E j \in 1..Len(csv) : \E h \in 1..Len(csv) : j < h /\ csv[j] = csv[h]
    \/ \E j \in Rows : \E h \in Rows : j < h /\ SameRow(df[j], df[h])

\* Every row of the file is in the frame, in file order
AllRowsKept == Len(df) = Len(csv) /\ \A j \in Rows : df[j].idx = j

\* C11: when two rows of the normalized frame are equal in every field, the
\* quality pass lists exactly one duplicate issue, and every row of the file,
\* the equal ones included, is still in the frame (and in what is saved).
C11_DuplicateIssue ==
    (Checked /\ HasDuplicates) =>
        /\ Cardinality(IssuesOf("duplicate", "")) = 1
        /\ AllRowsKept
        /\ pc = "saved" => out = df

C11_Witness ==
    /\ Checked
    /\ Len(df) = 2
    /\ SameRow(df[1], df[2])
    /\ Cardinality(IssuesOf("duplicate", "")) = 1

\* C12: a row whose buy-box cell reads 150% is in the frame with the value
\* 150, and the quality pass lists exactly one out-of-range issue for the
\* buy-box column; a row whose conversion rate is above 100 keeps the rate
\* computed from its cells, and exactly one issue is listed for that column.
C12_OutOfRangeFlagged ==
    Checked =>
        /\ AllRowsKept
        /\ \A j \in Rows :
              /\ csv[j].buy_box = Pct_150 =>
                    /\ df[j].buy_box = Num(Fin(150, 1))
                    /\ Cardinality(IssuesOf("out_of_range", "buy_box")) = 1
              /\ Gt(df[j].conversion_rate, 100) =>
                    /\ df[j].conversion_rate =
                          Num(FMul(FDiv(AsFloat(df[j].units), AsFloat(df[j].sessions)), Hundred))
                    /\ Cardinality(IssuesOf("out_of_range", "conversion_rate")) = 1
        /\ pc = "saved" => out = df

C12_Witness ==
    /\ Checked
    /\ \E j \in Rows : csv[j].buy_box = Pct_150 /\ df[j].buy_box = Num(Fin(150, 1))
    /\ \E j \in Rows : df[j].conversion_rate = Num(Fin(500, 1))
    /\ Cardinality(IssuesOf("out_of_range", "buy_box")) = 1
    /\ Cardinality(IssuesOf("out_of_range", "conversion_rate")) = 1

Totals == {"sessions", "units", "sales"}

Negative(f) == \E j \in Rows : df[j][f].k = "fin" /\ df[j][f].n < 0

\* C13: after the quality pass, a negative-value issue names the sessions,
\* units or sales column exactly when some row holds a negative value there.
C13_NegativeFlagged ==
    Checked =>
        \A f \in Totals :
            Cardinality(IssuesOf("negative", f)) = (IF Negative(f) THEN 1 ELSE 0)

C13_Witness ==
    /\ Checked
    /\ Negative("units")
    /\ ~Negative("sessions")
    /\ Negative("sales")
    /\ IssuesOf("negative", "units") # {}
    /\ IssuesOf("negative", "sales") # {}
    /\ IssuesOf("negative", "sessions") = {}

WithSku == {j \in 1..Len(csv) : strip(csv[j].sku) # <<>>}

\* C14: the normalized frame holds every row of the file that has a SKU,
\* whatever its sessions and units are and whatever was flagged, and as many
\* rows with a SKU as the file has.
C14_FullRowSet ==
    (Normalized /\ script # bs) =>
        /\ \A j \in WithSku : \E h \in Rows : df[h].idx = j
        /\ Cardinality({h \in Rows : HasSku(df[h].sku)}) = Cardinality(WithSku)

(* ----------------------- claims on failure handling --------------------- *)

\* The exceptions of the steps that read, clean and derive (KeyError and
\* ZeroDivisionError come from the summaries printed after them)
CleaningErrors == {"ValueError", "AttributeError", "TypeError"}

\* C15: whatever text the cells of the file hold, no load, clean or derive
\* step of any script raises.
C15_CleaningNeverRaises == err \notin CleaningErrors

\* The header names no SKU column or no Ordered Product Sales column
Structural == ~header.sku \/ ~header.sales

\* C16: on a file whose header lacks the SKU or the sales column no script
\* runs to its output (pc "saved": it completed on defaults) and none
\* swallows the exception (pc "failed": main() caught it and returned).
C16_StructuralFailureFatal == Structural => pc \notin {"saved", "failed"}

(* ------------------------- claims on the headers ------------------------ *)

\* The script has looked the sessions column up
LookedUp ==
    \/ script \in {abr, anr, abru} /\ pc \notin {"start", "loaded"}
    \/ script = aba

\* C17: however the header writes the dash and the spaces of "Sessions -
\* Total", every script finds the column: the renaming scripts hold it under
\* its canonical name, the others do not fail with KeyError on it, and
\* analyze-best-sellers.py reads the sessions of the row, not its default.
C17_HeaderDashTolerant ==
    (header.sku /\ header.sales) =>
        /\ LookedUp => Holds(df, "sessions")
        /\ script \in {spe, etc, tcr3} => err # "KeyError"
        /\ script = bs =>
              \A h \in Rows :
                  df[h].sessions = bs_parse_number(Str(csv[df[h].idx].sessions)).v

(* ------------------------ claims on whole pipelines --------------------- *)

\* The two-row file: sessions "1,000", units "50", sales "£500.00", and
\* sessions "0", units "0", sales "£0.00"
EndToEnd ==
    << RawRow(SkuB, AsinB, T_1000, T_50, GBP_500, Pct_95),
       RawRow(SkuB, AsinB, <<"0">>, <<"0">>, GBP_0, <<>>) >>

\* The frame holds row j of the file with these metrics (analyze-best-sellers.py
\* derives no average order value)
Yields(j, rate, aov) ==
    \E h \in Rows :
        /\ df[h].idx = j
        /\ df[h].conversion_rate = Num(rate)
        /\ (script = bs \/ df[h].avg_order_value = Num(aov))

\* C18: on the two-row file neither business-report script fails, and the
\* normalized frame holds the first row with conversion rate 5 and average
\* order value 10 and the second with 0 and 0.
C18_EndToEnd ==
    (csv = EndToEnd /\ header = Standard /\ script \in {abr, anr}) =>
        /\ err = "none"
        /\ Normalized => (Yields(1, Fin(5, 1), Fin(10, 1)) /\ Yields(2, Zero, Zero))

\* analyze_business_report.py has cleaned the columns and derived the metrics
Cleaned == script = abr /\ pc \in {"derived", "checked", "summarised", "saved"}

\* clean_percentage_columns, clean_currency_columns, clean_numeric_columns
\* and calculate_derived_metrics once more, on one row of the frame
renormalize(r) ==
    derive_metrics([r EXCEPT !.buy_box = clean_percentage_cell(@),
                             !.sales = clean_currency_cell(@),
                             !.sessions = clean_numeric_cell(@),
                             !.units = clean_numeric_cell(@)])

IsNumber(v) == v.k = "fin"

\* C19: the cleaners and the derivation applied to the frame they produced
\* leave every field as it is, and weekly-sales-comparison.py's parse_currency
\* and parse_percentage return the number they are given.
C19_Idempotent ==
    Cleaned =>
        \A j \in Rows :
            /\ renormalize(df[j]) = df[j]
            /\ IsNumber(df[j].sales) => wsc_parse_currency(df[j].sales) = Return(df[j].sales)
            /\ IsNumber(df[j].buy_box) =>
                   wsc_parse_percentage(df[j].buy_box) = Return(df[j].buy_box)

\* A row with sales 12.5, buy box 99.5 and conversion rate 25 went through
\* both passes unchanged
C19_Witness ==
    /\ Cleaned
    /\ \E j \in Rows :
           /\ df[j].sales = Num(Fin(25, 2))
           /\ df[j].buy_box = Num(Fin(199, 2))
           /\ df[j].conversion_rate = Num(Fin(25, 1))
           /\ renormalize(df[j]) = df[j]
           /\ wsc_parse_currency(df[j].sales) = Return(Num(Fin(25, 2)))

\* C20: when a cleaning or derivation function of analyze_business_report.py
\* returns, the frame it was handed holds the values it held before the call.
C20_InputUntouched == [][(script = abr /\ passed' # <<>>) => passed' = df]_vars

(* ============================ runner scripts ============================ *)
(* business_report_suite.py, run_analysis.py, run_analysis_updated.py,      *)
(* advanced_analysis_new.py main() and scripts/csv_to_json.py as processes: *)
(* the files on disk, the menu choice, the child scripts launched, what     *)
(* was printed and the exit status.                                         *)

brs == "business_report_suite"
ra == "run_analysis"
rau == "run_analysis_updated"
aan == "advanced_analysis_new"
c2j == "csv_to_json"

Runners == {brs, ra, rau, aan, c2j}

Report == "BusinessReport-23-07-2025.csv"
Report1 == "BusinessReport-23-07-2025 (1).csv"
Cleaned1 == "BusinessReport-23-07-2025_1_cleaned.csv"
InputCsv == "input.csv"
BasicUpdated == "analyze_business_report_updated.py"
AdvancedUpdated == "advanced_business_analysis_updated.py"
OpportunityUpdated == "opportunity_finder_updated.py"

DataFiles == {Report, Report1, Cleaned1, InputCsv}
ScriptFiles == {BasicUpdated, AdvancedUpdated, OpportunityUpdated}

\* A file is not there, is there but does not read as a CSV, or reads
Disks ==
    {d \in [DataFiles \cup ScriptFiles -> {"missing", "bad", "ok"}] :
        \A f \in ScriptFiles : d[f] # "bad"}

\* os.path.exists
exists(d, f) == d[f] # "missing"

\* What input() returns, stripped: the menu entries and something else
Choices == {"1", "2", "3", "4", "5", "x"}

\* len(sys.argv) of csv_to_json.py
Argcs == {2, 3}

\* exit is -1 while the process runs; uncaught tells an exit by traceback
RunStart(p, d, n) ==
    [prog |-> p, disk |-> d, argc |-> n, pc |-> "start", choice |-> "",
     selected_file |-> "", queue |-> <<>>, launched |-> <<>>, written |-> {},
     success_count |-> 0, total_scripts |-> 0,
     printed |-> {}, exit |-> -1, uncaught |-> FALSE]

\* No cell is under test and no cleaning script runs
CleanersIdle ==
    /\ parts = [pad |-> <<>>, pre |-> <<>>, sign |-> <<>>, suf |-> <<>>,
                body |-> [txt |-> <<>>, val |-> NoVal, kind |-> "none"]]
    /\ fn = "none"
    /\ result = Idle
    /\ script = "none"
    /\ csv = <<>>
    /\ header = [sku |-> TRUE, sales |-> TRUE, sessions |-> <<>>]
    /\ df = <<>>
    /\ passed = <<>>
    /\ pc = "idle"
    /\ err = "none"
    /\ out = <<>>
    /\ issues = <<>>
    /\ rownum = 0

InitRun ==
    /\ CleanersIdle
    /\ run \in {RunStart(p, d, n) : p \in Runners, d \in Disks, n \in Argcs}
    /\ (run.prog = c2j \/ run.argc = 3)
    /\ tags = NotRun /\ bf = NotRun /\ wk = NotRun /\ seg = NotRun

RunAt(p, at) == run.prog = p /\ run.pc = at

RunStep(r) == run' = r /\ UNCHANGED <<parseVars, pipeVars, tags, bf, wk, seg>>

\* print(...) of the messages, then main() returns (status 0) or sys.exit(n)
Finish(r, msgs, status) ==
    [r EXCEPT !.pc = "done", !.printed = @ \cup msgs, !.exit = status]

\* An exception nothing catches: the traceback, exit status 1
Crash(r) == [r EXCEPT !.pc = "done", !.exit = 1, !.uncaught = TRUE]

\* How a child script can end: it wrote its output (status 0), it printed an
\* error it caught and returned (status 0), or it ended by an exception or
\* did not start (status non-zero)
StatusOf(outcome) == IF outcome = "crashed" THEN 1 ELSE 0

\* analyze_new_report.py main(): every Exception is caught and printed, and
\* main() returns None
AnrOutcomes(d) ==
    IF d[Report1] = "ok" THEN {"wrote", "caught", "crashed"} ELSE {"caught", "crashed"}

\* advanced_analysis_new.py main(): FileNotFoundError alone is caught
AanOutcomes(d) ==
    IF d[Cleaned1] = "missing" THEN {"caught"}
    ELSE IF d[Cleaned1] = "bad" THEN {"crashed"}
    ELSE {"wrote", "crashed"}

\* A script that is on disk runs to either end; python exits with status 2
\* for a script that is not
ScriptOutcomes(d, f) == IF exists(d, f) THEN {"wrote", "crashed"} ELSE {"crashed"}

\* subprocess.run(..., check=True) under try/except CalledProcessError:
\* the launch is recorded, True is returned for status 0
Launched(r, f, outcome) ==
    [r EXCEPT !.launched = Append(@, [script |-> f, outcome |-> outcome,
                                       status |-> StatusOf(outcome),
                                       written |-> f \in r.written,
                                       cleaned |-> exists(r.disk, Cleaned1)])]

(* ------------------------ business_report_suite.py ---------------------- *)

brs_check_input ==
    /\ RunAt(brs, "start")
    /\ RunStep(IF exists(run.disk, Report) THEN [run EXCEPT !.pc = "menu"]
               ELSE Finish(run, {"input file not found"}, 0))

\* The scripts a choice of the two suites' menus runs
SuiteScripts(c, basic, advanced, opportunity) ==
    CASE c = "1" -> <<basic>>
      [] c = "2" -> <<advanced>>
      [] c = "3" -> <<opportunity>>
      [] c = "4" -> <<basic, advanced, opportunity>>
      [] OTHER -> <<>>

brs_menu ==
    /\ RunAt(brs, "menu")
    /\ \E c \in Choices :
          RunStep(IF c \in {"1", "2", "3", "4", "5"}
                  THEN [run EXCEPT
                          !.choice = c,
                          !.queue = SuiteScripts(c, "analyze_business_report.py",
                                                 "advanced_business_analysis.py",
                                                 "opportunity_finder.py"),
                          !.total_scripts = Len(SuiteScripts(c, "a", "b", "c")),
                          !.pc = "running"]
                  ELSE Finish([run EXCEPT !.choice = c], {"invalid choice"}, 0))

\* if run_script(script, description): success_count += 1
Counted(r, f, outcome) ==
    [Launched(r, f, outcome) EXCEPT
        !.queue = Tail(@),
        !.success_count = IF StatusOf(outcome) = 0 THEN @ + 1 ELSE @]

brs_run_script ==
    /\ RunAt(brs, "running")
    /\ run.queue # <<>>
    /\ \E o \in {"wrote", "crashed"} : RunStep(Counted(run, Head(run.queue), o))

brs_display_summary ==
    /\ RunAt(brs, "running")
    /\ run.queue = <<>>
    /\ RunStep(Finish(run, (IF run.total_scripts > 0 THEN {"analysis complete"} ELSE {})
                            \cup {"suite complete"}, 0))

(* ----------------------------- run_analysis.py -------------------------- *)

ra_check_input ==
    /\ RunAt(ra, "start")
    /\ RunStep(IF exists(run.disk, Report1) THEN [run EXCEPT !.pc = "menu"]
               ELSE Finish(run, {"input file not found"}, 0))

\* The first thing each choice does; the preview of choice 4 catches every
\* exception, and every branch falls through to the closing print
ra_menu ==
    /\ RunAt(ra, "menu")
    /\ \E c \in Choices :
          RunStep(CASE c \in {"1", "3"} -> [run EXCEPT !.choice = c, !.pc = "basic"]
                    [] c = "2" ->
                         IF exists(run.disk, Cleaned1)
                         THEN [run EXCEPT !.choice = c, !.pc = "advanced"]
                         ELSE [run EXCEPT !.choice = c, !.pc = "basic",
                                          !.printed = @ \cup {"running basic analysis first"}]
                    [] c = "4" -> Finish([run EXCEPT !.choice = c],
                                         {"preview", "analysis complete"}, 0)
                    [] OTHER -> Finish([run EXCEPT !.choice = c],
                                       {"invalid choice", "analysis complete"}, 0))

\* run_command(python analyze_new_report.py): a run that succeeds writes the
\* cleaned file
ra_basic_analysis ==
    /\ RunAt(ra, "basic")
    /\ \E o \in AnrOutcomes(run.disk) :
          RunStep([Launched(run, "analyze_new_report.py", o) EXCEPT
                      !.disk = IF o = "wrote" THEN [@ EXCEPT ![Cleaned1] = "ok"] ELSE @,
                      !.pc = IF run.choice = "1" THEN "report" ELSE "advanced"])

ra_advanced_analysis ==
    /\ RunAt(ra, "advanced")
    /\ \E o \in AanOutcomes(run.disk) :
          RunStep([Launched(run, "advanced_analysis_new.py", o) EXCEPT !.pc = "report"])

\* run_command returned True for every launch the choice looks at (choice 2
\* looks at the advanced run alone)
Succeeded(r) ==
    \A i \in 1..Len(r.launched) :
        \/ r.launched[i].status = 0
        \/ (r.choice = "2" /\ r.launched[i].script = "analyze_new_report.py")

ra_report ==
    /\ RunAt(ra, "report")
    /\ RunStep(Finish(run,
                      (IF Succeeded(run)
                       THEN {IF run.choice = "3" THEN "all files created" ELSE "files created"}
                       ELSE {})
                      \cup {"analysis complete"}, 0))

(* ------------------------- run_analysis_updated.py ---------------------- *)

\* check_file_exists and get_file_info without 'error'
valid_files(d) == {f \in {Report, Report1} : d[f] = "ok"}

\* The listing and the file selection (auto-selected when one file is valid)
rau_select_file ==
    /\ RunAt(rau, "start")
    /\ IF valid_files(run.disk) = {}
       THEN RunStep(Finish(run, {"no valid files"}, 0))
       ELSE \E f \in valid_files(run.disk) :
                RunStep([run EXCEPT !.selected_file = f, !.pc = "menu"])

\* create_updated_scripts: open(...,"w") of the basic script, nothing else
create_updated_scripts(r) ==
    [r EXCEPT !.disk = [@ EXCEPT ![BasicUpdated] = "ok"],
              !.written = @ \cup {BasicUpdated}]

\* Choice 5 previews and returns; every other choice first writes the
\* scripts, then runs its scripts or reports the choice invalid
rau_menu ==
    /\ RunAt(rau, "menu")
    /\ \E c \in Choices :
          RunStep(IF c = "5" THEN Finish([run EXCEPT !.choice = c], {"preview"}, 0)
                  ELSE IF c \in {"1", "2", "3", "4"}
                  THEN [create_updated_scripts(run) EXCEPT
                          !.choice = c,
                          !.queue = SuiteScripts(c, BasicUpdated, AdvancedUpdated,
                                                 OpportunityUpdated),
                          !.total_scripts = Len(SuiteScripts(c, "a", "b", "c")),
                          !.pc = "running"]
                  ELSE Finish([create_updated_scripts(run) EXCEPT !.choice = c],
                              {"invalid choice"}, 0))

run_script_with_file ==
    /\ RunAt(rau, "running")
    /\ run.queue # <<>>
    /\ \E o \in ScriptOutcomes(run.disk, Head(run.queue)) :
          RunStep(Counted(run, Head(run.queue), o))

rau_display_results ==
    /\ RunAt(rau, "running")
    /\ run.queue = <<>>
    /\ RunStep(Finish(run, {"analysis complete"}, 0))

(* ------------------------ advanced_analysis_new.py ---------------------- *)

\* main(): df = load_cleaned_data(); if df is None: return
aan_load_cleaned_data ==
    /\ RunAt(aan, "start")
    /\ RunStep(CASE run.disk[Cleaned1] = "missing" ->
                        Finish(run, {"cleaned data not found"}, 0)
                 [] run.disk[Cleaned1] = "bad" -> Crash(run)
                 [] OTHER -> [run EXCEPT !.pc = "loaded"])

\* The rest of main(), under no try
aan_analyse ==
    /\ RunAt(aan, "loaded")
    /\ \/ RunStep(Finish(run, {"advanced analysis completed"}, 0))
       \/ RunStep(Crash(run))

(* --------------------------- scripts/csv_to_json.py --------------------- *)

c2j_main ==
    /\ RunAt(c2j, "start")
    /\ RunStep(IF run.argc # 3 THEN Finish(run, {"usage"}, 1)
               ELSE IF ~exists(run.disk, InputCsv)
               THEN Finish(run, {"input file does not exist"}, 1)
               ELSE [run EXCEPT !.pc = "convert"])

\* csv_to_json: except Exception: print, sys.exit(1)
csv_to_json ==
    /\ RunAt(c2j, "convert")
    /\ \/ run.disk[InputCsv] = "ok" /\ RunStep(Finish(run, {"converted"}, 0))
       \/ RunStep(Finish(run, {"conversion failed"}, 1))

NextRun ==
    \/ brs_check_input
    \/ brs_menu
    \/ brs_run_script
    \/ brs_display_summary
    \/ ra_check_input
    \/ ra_menu
    \/ ra_basic_analysis
    \/ ra_advanced_analysis
    \/ ra_report
    \/ rau_select_file
    \/ rau_menu
    \/ run_script_with_file
    \/ rau_display_results
    \/ aan_load_cleaned_data
    \/ aan_analyse
    \/ c2j_main
    \/ csv_to_json

SpecRun == InitRun /\ [][NextRun]_vars

(* ------------------------- claims on the runners ------------------------ *)

\* The run is over and its input did not read or its prerequisite was not
\* there
InputFailed ==
    /\ run.pc = "done"
    /\ \/ run.prog = brs /\ run.disk[Report] = "missing"
       \/ run.prog = aan /\ run.disk[Cleaned1] # "ok"
       \/ run.prog = c2j /\ run.argc = 3 /\ run.disk[InputCsv] # "ok"

\* C21: a run whose input file or prerequisite output is missing or does not
\* read ends with a printed message and a non-zero exit status, by no uncaught
\* exception.
C21_FailureExitsNonZero ==
    InputFailed => (run.printed # {} /\ run.exit # 0 /\ ~run.uncaught)

Launches == 1..Len(run.launched)

Advanced(i) == run.launched[i].script = "advanced_analysis_new.py"

\* C28: run_analysis.py launches the advanced analysis only when the cleaned
\* file is there, never straight after a basic analysis that did not
\* succeed, and prints 'all files created' only if every run succeeded.
C28_AdvancedNeedsCleaned ==
    run.prog = ra =>
        /\ \A i \in Launches :
              Advanced(i) =>
                  /\ run.launched[i].cleaned
                  /\ i > 1 => run.launched[i - 1].outcome = "wrote"
        /\ "all files created" \in run.printed =>
               \A i \in Launches : run.launched[i].outcome = "wrote"

\* C29: run_analysis_updated.py launches only scripts create_updated_scripts
\* has written, and success_count is the number of launches that exited with
\* status 0, between 0 and total_scripts.
C29_LaunchedScriptsWritten ==
    run.prog = rau =>
        /\ \A i \in Launches : run.launched[i].written
        /\ run.success_count = Cardinality({i \in Launches : run.launched[i].status = 0})
        /\ run.success_count \in 0..run.total_scripts

(* ============================ check_balance.py ========================== *)
(* Markup is a sequence of tokens: the punctuation "<" ">" "/" "{" "}" "#", *)
(* the blank " ", the line break "\n", and words (a maximal run of \w        *)
(* characters is one token).                                                 *)

cb == "check_balance"

Punctuation == {"<", ">", "/", "{", "}", "#", " ", "\n", "=", "\""}

\* \w+ : one word token
IsWord(t) == t \notin Punctuation

\* content.split('\n')
RECURSIVE split_lines(_)
split_lines(content) ==
    IF \A i \in 1..Len(content) : content[i] # "\n" THEN <<content>>
    ELSE LET b == CHOOSE i \in 1..Len(content) :
                      content[i] = "\n" /\ \A h \in 1..(i - 1) : content[h] # "\n"
         IN  <<SubSeq(content, 1, b - 1)>> \o split_lines(SubSeq(content, b + 1, Len(content)))

At2(line, i) == IF i \in 1..Len(line) THEN line[i] ELSE "\n"

\* The first position from i on that holds the token c, 0 if none
FirstAt(line, i, c) ==
    IF \E m \in i..Len(line) : line[m] = c
    THEN CHOOSE m \in i..Len(line) : line[m] = c /\ \A h \in i..(m - 1) : line[h] # c
    ELSE 0

NoMatch == [ok |-> FALSE, closing |-> FALSE, name |-> "", last |-> 0]

\* The rest of either pattern after the opening bracket and the marker:
\* \w+ (?:\s[^c]*)? c, with c the closing bracket; k is where \w+ starts
NameToBracket(line, k, c, closing) ==
    IF ~IsWord(At2(line, k)) THEN NoMatch
    ELSE IF At2(line, k + 1) = c
         THEN [ok |-> TRUE, closing |-> closing, name |-> line[k], last |-> k + 1]
    ELSE IF At2(line, k + 1) = " " /\ FirstAt(line, k + 2, c) # 0
         THEN [ok |-> TRUE, closing |-> closing, name |-> line[k],
               last |-> FirstAt(line, k + 2, c)]
    ELSE NoMatch

\* html_tag_pattern at position i: <(/?)(\w+)(?:\s[^>]*)?> first, then
\* <(/?)(\w+)(?:\s[^>]*)?/> , which is left the form <name/> alone
html_tag_pattern(line, i) ==
    IF At2(line, i) # "<" THEN NoMatch
    ELSE LET closing == At2(line, i + 1) = "/"
             k == IF closing THEN i + 2 ELSE i + 1
             first == NameToBracket(line, k, ">", closing)
         IN  IF first.ok THEN first
             ELSE IF IsWord(At2(line, k)) /\ At2(line, k + 1) = "/" /\ At2(line, k + 2) = ">"
                  THEN [ok |-> TRUE, closing |-> closing, name |-> line[k], last |-> k + 2]
             ELSE NoMatch

\* svelte_block_pattern at position i: \{(#|/)(\w+)(?:\s[^}]*)?\}
svelte_block_pattern(line, i) ==
    IF At2(line, i) = "{" /\ At2(line, i + 1) \in {"#", "/"}
    THEN NameToBracket(line, i + 2, "}", At2(line, i + 1) = "/")
    ELSE NoMatch

Tag(type, line_num, kind, name) ==
    [tag_type |-> type, line_num |-> line_num, tag |-> [kind |-> kind, name |-> name]]

\* re.finditer over one line: the matches left to right, not overlapping
RECURSIVE html_tags(_, _, _)
html_tags(line, i, line_num) ==
    IF i > Len(line) THEN <<>>
    ELSE LET m == html_tag_pattern(line, i)
         IN  IF m.ok
             THEN <<Tag(IF m.closing THEN "closing" ELSE "opening", line_num, "html", m.name)>>
                  \o html_tags(line, m.last + 1, line_num)
             ELSE html_tags(line, i + 1, line_num)

RECURSIVE svelte_blocks(_, _, _)
svelte_blocks(line, i, line_num) ==
    IF i > Len(line) THEN <<>>
    ELSE LET m == svelte_block_pattern(line, i)
         IN  IF m.ok
             THEN <<Tag(IF m.closing THEN "closing" ELSE "opening", line_num, "svelte", m.name)>>
                  \o svelte_blocks(line, m.last + 1, line_num)
             ELSE svelte_blocks(line, i + 1, line_num)

\* extract_tags_and_blocks: line by line, the HTML tags of a line before its
\* Svelte blocks
RECURSIVE tags_of_lines(_, _)
tags_of_lines(lines, n) ==
    IF n = 0 THEN <<>>
    ELSE tags_of_lines(lines, n - 1)
         \o html_tags(lines[n], 1, n) \o svelte_blocks(lines[n], 1, n)

extract_tags_and_blocks(content) ==
    tags_of_lines(split_lines(content), Len(split_lines(content)))

\* str.lower() on the names the files use
str_lower(w) == CASE w = "DIV" -> "div" [] w = "Div" -> "div" [] OTHER -> w

\* tag.strip('<>{}').lower()
tag_name(tag) == str_lower(tag.name)

\* A set of self-closing names that lacks br
self_closing_without_br ==
    {"img", "hr", "input", "meta", "link", "area", "base", "col", "embed",
     "source", "track", "wbr"}

self_closing ==
    {"img", "br", "hr", "input", "meta", "link", "area", "base", "col", "embed",
     "source", "track", "wbr"}

\* The body of check_balance's for loop on one tag: the stack (top last)
\* and the issues after it
check_balance_tag(t, stack, found) ==
    IF tag_name(t.tag) \in self_closing THEN [stack |-> stack, issues |-> found]
    ELSE IF t.tag_type = "opening"
         THEN [stack |-> Append(stack, [tag |-> t.tag, line_num |-> t.line_num]),
               issues |-> found]
    ELSE IF stack = <<>>
         THEN [stack |-> stack,
               issues |-> Append(found, [kind |-> "Unexpected closing tag",
                                         line_num |-> t.line_num, tag |-> t.tag])]
    ELSE [stack |-> SubSeq(stack, 1, Len(stack) - 1),
          issues |-> IF tag_name(stack[Len(stack)].tag) # tag_name(t.tag)
                     THEN Append(found, [kind |-> "Mismatched tags",
                                         line_num |-> t.line_num, tag |-> t.tag])
                     ELSE found]

\* while stack: pop, append "Unclosed tag": the top of the stack first
unclosed(stack) ==
    [i \in 1..Len(stack) |->
        [kind |-> "Unclosed tag", line_num |-> stack[Len(stack) + 1 - i].line_num,
         tag |-> stack[Len(stack) + 1 - i].tag]]

(* ------------------------------- the files ------------------------------ *)

MaxPieces == 4

\* What a file is made of: elements, blocks and line breaks
Pieces ==
    { <<"<", "div", ">">>,
      <<"<", "/", "div", ">">>,
      <<"<", "/", "DIV", ">">>,
      <<"<", "br", ">">>,
      <<"<", "div", "/", ">">>,
      <<"<", "div", " ", "/", ">">>,
      <<"{", "#", "if", " ", "x", "}">>,
      <<"{", "/", "if", "}">>,
      <<"\n">> }

RECURSIVE Concat(_)
Concat(ps) == IF ps = <<>> THEN <<>> ELSE Head(ps) \o Concat(Tail(ps))

Contents == {Concat(ps) : ps \in UNION {[1..n -> Pieces] : n \in 1..MaxPieces}}

InitBalance ==
    /\ CleanersIdle
    /\ tags \in {[prog |-> cb, content |-> c, pc |-> "start", tags |-> <<>>, i |-> 0,
                  stack |-> <<>>, issues |-> <<>>] : c \in Contents}
    /\ run = NotRun /\ bf = NotRun /\ wk = NotRun /\ seg = NotRun

TagsStep(r) == tags' = r /\ UNCHANGED <<parseVars, pipeVars, run, bf, wk, seg>>

\* analyze_file: tags = extract_tags_and_blocks(content)
cb_extract_tags_and_blocks ==
    /\ tags.prog = cb /\ tags.pc = "start"
    /\ TagsStep([tags EXCEPT !.tags = extract_tags_and_blocks(tags.content),
                             !.i = 1, !.pc = "loop"])

\* One turn of check_balance's for loop
cb_check_balance_tag ==
    /\ tags.prog = cb /\ tags.pc = "loop"
    /\ tags.i <= Len(tags.tags)
    /\ LET r == check_balance_tag(tags.tags[tags.i], tags.stack, tags.issues)
       IN  TagsStep([tags EXCEPT !.stack = r.stack, !.issues = r.issues, !.i = @ + 1])

\* The while loop after it, and the return
cb_check_balance_unclosed ==
    /\ tags.prog = cb /\ tags.pc = "loop"
    /\ tags.i > Len(tags.tags)
    /\ TagsStep([tags EXCEPT !.issues = @ \o unclosed(tags.stack), !.stack = <<>>,
                             !.pc = "done"])

NextBalance ==
    \/ cb_extract_tags_and_blocks
    \/ cb_check_balance_tag
    \/ cb_check_balance_unclosed

SpecBalance == InitBalance /\ [][NextBalance]_vars

(* ----------------------- claims on check_balance.py --------------------- *)

\* The void elements the tag sequence is rid of
VoidElements ==
    {"img", "br", "hr", "input", "meta", "link", "area", "base", "col", "embed",
     "source", "track", "wbr"}

NotVoid(t) == str_lower(t.tag.name) \notin VoidElements

Pair(a, b) ==
    a.tag_type = "opening" /\ b.tag_type = "closing"
    /\ str_lower(a.tag.name) = str_lower(b.tag.name)

\* Properly nested: taking out an opening tag next to its closing tag, again
\* and again, leaves nothing
RECURSIVE Reduced(_)
Reduced(ts) ==
    IF \E i \in 1..(Len(ts) - 1) : Pair(ts[i], ts[i + 1])
    THEN LET i == CHOOSE i \in 1..(Len(ts) - 1) : Pair(ts[i], ts[i + 1])
         IN  Reduced(SubSeq(ts, 1, i - 1) \o SubSeq(ts, i + 2, Len(ts)))
    ELSE ts

WellNested(ts) == Reduced(SelectSeq(ts, NotVoid)) = <<>>

SelfClosedAt(c, i) ==
    IF At2(c, i) = "<" /\ IsWord(At2(c, i + 1)) /\ At2(c, i + 2) = "/" /\ At2(c, i + 3) = ">"
    THEN 4
    ELSE IF /\ At2(c, i) = "<" /\ IsWord(At2(c, i + 1)) /\ At2(c, i + 2) = " "
            /\ At2(c, i + 3) = "/" /\ At2(c, i + 4) = ">"
         THEN 5
    ELSE 0

\* The markup without its self-closing elements
RECURSIVE WithoutSelfClosed(_, _)
WithoutSelfClosed(c, i) ==
    IF i > Len(c) THEN <<>>
    ELSE IF SelfClosedAt(c, i) > 0 THEN WithoutSelfClosed(c, i + SelfClosedAt(c, i))
    ELSE <<c[i]>> \o WithoutSelfClosed(c, i + 1)

IssueKinds == {tags.issues[i].kind : i \in 1..Len(tags.issues)}

\* C24: when the elements that are not written in self-closing form are
\* properly closed, check_balance reports no unclosed and no mismatched tag.
C24_SelfClosingNeedsNoClose ==
    (/\ tags.prog = cb /\ tags.pc = "done"
     /\ WellNested(extract_tags_and_blocks(WithoutSelfClosed(tags.content, 1))))
    => IssueKinds \cap {"Unclosed tag", "Mismatched tags"} = {}

(* =========================== analyze_expanded.py ======================== *)

ae == "analyze_expanded"

\* pat in line
Contains(line, pat) ==
    \E i \in 1..(Len(line) - Len(pat) + 1) : SubSeq(line, i, i + Len(pat) - 1) = pat

\* line.endswith(pat)
EndsWith(line, pat) ==
    Len(line) >= Len(pat) /\ SubSeq(line, Len(line) - Len(pat) + 1, Len(line)) = pat

CloseDiv == <<"<", "/", "div", ">">>
IfExpanded == <<"{", "#", "if", " ", "isExpanded", "}">>
EndIf == <<"{", "/", "if", "}">>

MaxLines == 5

\* The lines a file is made of
Lines ==
    { IfExpanded,
      <<"<", "div", ">">>,
      <<"<", "div", ">", "x", "<", "/", "div", ">">>,
      <<" ", " ">> \o CloseDiv,
      EndIf,
      <<"{", "#", "if", " ", "x", "}">>,
      <<"<", "div", " ", "/", ">">> }

InitExpanded ==
    /\ CleanersIdle
    /\ tags \in {[prog |-> ae, lines |-> ls, pc |-> "start", i |-> 0, start_line |-> 0,
                  end_line |-> 0, div_stack |-> <<>>, if_stack |-> <<>>,
                  errors |-> <<>>] : ls \in UNION {[1..n -> Lines] : n \in 1..MaxLines}}
    /\ run = NotRun /\ bf = NotRun /\ wk = NotRun /\ seg = NotRun

\* The first loop: the first line that holds '{#if isExpanded}', or the
\* return when none does
ae_find_block ==
    /\ tags.prog = ae /\ tags.pc = "start"
    /\ LET found == {n \in 1..Len(tags.lines) : Contains(tags.lines[n], IfExpanded)}
       IN  IF found = {} THEN TagsStep([tags EXCEPT !.pc = "done"])
           ELSE LET first == CHOOSE n \in found : \A m \in found : n <= m
                IN  TagsStep([tags EXCEPT !.start_line = first, !.i = first, !.pc = "scan"])

Pop(stack) == SubSeq(stack, 1, Len(stack) - 1)

\* The if/elif chain of the second loop on one stripped line
scan_line(r, line, line_num) ==
    IF /\ Contains(line, <<"<", "div">>) /\ ~EndsWith(line, CloseDiv)
       /\ ~Contains(line, <<"/", ">">>)
    THEN [r EXCEPT !.div_stack = Append(@, line_num)]
    ELSE IF Contains(line, CloseDiv)
    THEN IF r.div_stack # <<>> THEN [r EXCEPT !.div_stack = Pop(@)]
         ELSE [r EXCEPT !.errors = Append(@, [line_num |-> line_num, tag |-> "</div>"])]
    ELSE IF Contains(line, <<"{", "#", "if">>)
    THEN [r EXCEPT !.if_stack = Append(@, line_num)]
    ELSE IF Contains(line, EndIf)
    THEN IF r.if_stack # <<>> THEN [r EXCEPT !.if_stack = Pop(@)]
         ELSE [r EXCEPT !.errors = Append(@, [line_num |-> line_num, tag |-> "{/if}"])]
    ELSE r

\* One turn of the second loop, with the break at the end of the block
ae_scan_line ==
    /\ tags.prog = ae /\ tags.pc = "scan"
    /\ tags.i <= Len(tags.lines)
    /\ LET line == strip(tags.lines[tags.i])
           r == scan_line(tags, line, tags.i)
       IN  IF /\ Contains(line, EndIf) /\ r.if_stack = <<>>
              /\ ~Contains(line, <<"isExpanded">>)
           THEN TagsStep([r EXCEPT !.end_line = tags.i, !.pc = "summary"])
           ELSE TagsStep([r EXCEPT !.i = @ + 1])

\* The summary printed after the loop
ae_summary ==
    /\ tags.prog = ae
    /\ tags.pc = "summary" \/ (tags.pc = "scan" /\ tags.i > Len(tags.lines))
    /\ TagsStep([tags EXCEPT !.pc = "done"])

NextExpanded ==
    \/ ae_find_block
    \/ ae_scan_line
    \/ ae_summary

SpecExpanded == InitExpanded /\ [][NextExpanded]_vars

(* ---------------------- claims on analyze_expanded.py ------------------- *)

IsDiv(t) == t.tag.name = "div"

\* The <div> and </div> tags of lines a..b in order, self-closing ones apart
RECURSIVE DivTags(_, _, _)
DivTags(lines, a, b) ==
    IF a > b THEN <<>>
    ELSE SelectSeq(html_tags(WithoutSelfClosed(lines[a], 1), 1, a), IsDiv)
         \o DivTags(lines, a + 1, b)

\* The lines the second loop went through
LastScanned == IF tags.end_line > 0 THEN tags.end_line ELSE Len(tags.lines)

\* C25: when the <div> elements of the scanned lines are balanced, the scan
\* ends with no </div> error and no unclosed <div>.
C25_BalancedDivsNoError ==
    (/\ tags.prog = ae /\ tags.pc = "done" /\ tags.start_line > 0
     /\ WellNested(DivTags(tags.lines, tags.start_line, LastScanned)))
    => /\ tags.div_stack = <<>>
       /\ \A e \in 1..Len(tags.errors) : tags.errors[e].tag # "</div>"

(* ====================== backfill_competitive_titles.py ================== *)
(* A text is a sequence of words; None (SQL NULL) is the one-word sequence  *)
(* <<"None">>, which no text of the tables is.                              *)

backfill == "backfill_competitive_titles"

None == <<"None">>

MaxRecords == 2

Asins == {"B0A", "B0B"}

\* competitive_asins: rows id 1..n with an ASIN and a title or NULL
CompetitiveTables ==
    UNION {[1..n -> [competitive_asin : Asins,
                     competitive_product_title : {None, <<"Old", "title">>}]] :
           n \in 0..MaxRecords}

MappingRow(asin, name) == [asin1 |-> asin, item_name |-> name]

\* sku_asin_mapping: no row, one row with a name, with NULL, with '', two
\* rows for one ASIN, a row for the other ASIN
MappingTables ==
    { <<>>,
      <<MappingRow("B0A", <<"Widget">>)>>,
      <<MappingRow("B0A", None)>>,
      <<MappingRow("B0A", <<>>)>>,
      <<MappingRow("B0A", <<"Widget">>), MappingRow("B0A", <<"Gadget">>)>>,
      <<MappingRow("B0A", <<>>), MappingRow("B0A", <<"Gadget">>)>>,
      <<MappingRow("B0B", <<"Gadget">>), MappingRow("B0A", <<"Widget">>)>> }

InitBackfill ==
    /\ CleanersIdle
    /\ bf \in {[prog |-> backfill, credentials |-> c, before |-> t, competitive_asins |-> t,
                sku_asin_mapping |-> m, pc |-> "start", fetched |-> <<>>, i |-> 0,
                title |-> None, attempts |-> <<>>, updated_count |-> 0,
                completed |-> FALSE, exc |-> "none"] :
               c \in BOOLEAN, t \in CompetitiveTables, m \in MappingTables}
    /\ run = NotRun /\ tags = NotRun /\ wk = NotRun /\ seg = NotRun

BfAt(at) == bf.prog = backfill /\ bf.pc = at

BfStep(r) == bf' = r /\ UNCHANGED <<parseVars, pipeVars, run, tags, wk, seg>>

\* select('*').is_('competitive_product_title', 'null'): the ids, in order
missing_titles(t) ==
    SelectSeq([n \in 1..Len(t) |-> n], LAMBDA n : t[n].competitive_product_title = None)

\* The credentials check, the fetch and the return when nothing is missing
bf_fetch ==
    /\ BfAt("start")
    /\ BfStep(IF ~bf.credentials \/ missing_titles(bf.competitive_asins) = <<>>
              THEN [bf EXCEPT !.pc = "done"]
              ELSE [bf EXCEPT !.fetched = missing_titles(bf.competitive_asins),
                              !.i = 1, !.pc = "lookup"])

\* A title that keeps an empty item_name
backfill_title_unchecked(first, competitive_asin) == first

\* title = data[0].get('item_name') if there is a row; if not title: the
\* placeholder f"Product {competitive_asin}"
backfill_title(first, competitive_asin) ==
    IF first = None \/ first = <<>> THEN <<"Product", competitive_asin>> ELSE first

\* The item_name of data[0] for each order the query can return its rows in;
\* None when no row matches
FirstNames(m, asin) ==
    IF \A n \in 1..Len(m) : m[n].asin1 # asin THEN {None}
    ELSE {m[n].item_name : n \in {h \in 1..Len(m) : m[h].asin1 = asin}}

Attempt(id, first, title, outcome) ==
    [id |-> id, first |-> first, title |-> title, outcome |-> outcome]

\* The sku_asin_mapping query of one turn of the loop, under no try: an
\* exception leaves main() and is printed by the except of __main__
bf_lookup ==
    /\ BfAt("lookup")
    /\ bf.i <= Len(bf.fetched)
    /\ LET id == bf.fetched[bf.i]
           asin == bf.competitive_asins[id].competitive_asin
       IN  \/ \E first \in FirstNames(bf.sku_asin_mapping, asin) :
                 BfStep([bf EXCEPT !.title = backfill_title(first, asin),
                                   !.attempts = Append(@, Attempt(id, first,
                                                    backfill_title(first, asin), "looked up")),
                                   !.pc = "update"])
           \/ BfStep([bf EXCEPT !.attempts = Append(@, Attempt(id, None, None, "lookup raised")),
                                !.exc = "Exception", !.pc = "done"])

\* The update of one turn, under try/except Exception: it returns the
\* updated row, returns no data, or raises
bf_update ==
    /\ BfAt("update")
    /\ LET id == bf.fetched[bf.i]
           a == bf.attempts[Len(bf.attempts)]
       IN  \/ BfStep([bf EXCEPT
                        !.competitive_asins[id].competitive_product_title = bf.title,
                        !.attempts[Len(bf.attempts)] = [a EXCEPT !.outcome = "updated"],
                        !.updated_count = @ + 1, !.i = @ + 1, !.pc = "lookup"])
           \/ \E o \in {"no data", "update raised"} :
                 BfStep([bf EXCEPT
                           !.attempts[Len(bf.attempts)] = [a EXCEPT !.outcome = o],
                           !.i = @ + 1, !.pc = "lookup"])

\* The loop is over: "Backfill complete! Updated n records"
bf_complete ==
    /\ BfAt("lookup")
    /\ bf.i > Len(bf.fetched)
    /\ BfStep([bf EXCEPT !.completed = TRUE, !.pc = "done"])

NextBackfill ==
    \/ bf_fetch
    \/ bf_lookup
    \/ bf_update
    \/ bf_complete

SpecBackfill == InitBackfill /\ [][NextBackfill]_vars

(* ------------------------- claims on the backfill ----------------------- *)

Fetched == {bf.fetched[k] : k \in 1..Len(bf.fetched)}

AttemptsOf(id) == {k \in 1..Len(bf.attempts) : bf.attempts[k].id = id}

AllUpdated == \A k \in 1..Len(bf.attempts) : bf.attempts[k].outcome = "updated"

\* C26: when main() completes and every update succeeded, each record fetched
\* with a NULL title was written once, with a non-empty title: the item_name
\* the lookup returned first if that is non-empty, 'Product <asin>'
\* otherwise; updated_count is the number of fetched records; a record that
\* had a title is not written.
C26_BackfillPostcondition ==
    (bf.prog = backfill /\ bf.completed /\ AllUpdated) =>
        /\ \A id \in Fetched :
              /\ bf.before[id].competitive_product_title = None
              /\ Cardinality(AttemptsOf(id)) = 1
              /\ \A k \in AttemptsOf(id) :
                    /\ bf.attempts[k].title \notin {None, <<>>}
                    /\ bf.attempts[k].title =
                           (IF bf.attempts[k].first \in {None, <<>>}
                            THEN <<"Product", bf.before[id].competitive_asin>>
                            ELSE bf.attempts[k].first)
                    /\ bf.competitive_asins[id].competitive_product_title = bf.attempts[k].title
        /\ bf.updated_count = Len(bf.fetched)
        /\ \A id \in 1..Len(bf.before) :
              bf.before[id].competitive_product_title # None =>
                  (AttemptsOf(id) = {} /\ bf.competitive_asins[id] = bf.before[id])

\* Two records were fetched; one got the item_name, one the placeholder
C26_Witness ==
    /\ bf.prog = backfill /\ bf.completed /\ AllUpdated
    /\ Len(bf.fetched) = 2
    /\ bf.updated_count = 2
    /\ bf.competitive_asins[1].competitive_product_title = <<"Widget">>
    /\ bf.competitive_asins[2].competitive_product_title = <<"Product", "B0B">>

\* C27: whatever fails on one record, every fetched record is attempted, and
\* updated_count is at most the number of fetched records.
C27_FailureIsolation ==
    (bf.prog = backfill /\ bf.pc = "done") =>
        /\ \A id \in Fetched : AttemptsOf(id) # {}
        /\ bf.updated_count <= Len(bf.fetched)

(* ===== advanced_analysis_new.py and simple_performance_export.py:      == *)
(* ===== the traffic x conversion quadrants                              == *)

spx == "simple_performance_export"

MaxProducts == 3

\* Cells of the two columns: a missing cell (NaN) or a number
Cells == {NaN, Fin(0, 1), Fin(10, 1), Fin(20, 1)}

Products ==
    UNION {[1..n -> [sessions_total : Cells, conversion_rate : Cells]] : n \in 0..MaxProducts}

\* x >= t and x < t on floats: both False when either side is NaN
Ge(x, t) == x.k = "fin" /\ t.k = "fin" /\ x.n * t.d >= t.n * x.d
Lt(x, t) == x.k = "fin" /\ t.k = "fin" /\ x.n * t.d < t.n * x.d

RECURSIVE Ascending(_)
\* The numbers of a set of positions of a column, in ascending order
Ascending(col) ==
    IF \A n \in 1..Len(col) : col[n].k = "nan" THEN <<>>
    ELSE LET least == CHOOSE n \in 1..Len(col) :
                         /\ col[n].k = "fin"
                         /\ \A h \in 1..Len(col) : col[h].k = "fin" => ~Lt(col[h], col[n])
         IN  <<col[least]>> \o Ascending([col EXCEPT ![least] = NaN])

\* Series.quantile(qn/qd): NaN is skipped; linear interpolation between the
\* two order statistics around position q * (n - 1); NaN for no number
quantile(col, qn, qd) ==
    LET vals == Ascending(col)
        pos == qn * (Len(vals) - 1)
        lo == (pos \div qd) + 1
        hi == IF pos % qd = 0 THEN lo ELSE lo + 1
    IN  IF vals = <<>> THEN NaN
        ELSE Fin(vals[lo].n * vals[hi].d * qd
                   + (pos % qd) * (vals[hi].n * vals[lo].d - vals[lo].n * vals[hi].d),
                 vals[lo].d * vals[hi].d * qd)

Column(d, name) == [n \in 1..Len(d) |-> d[n][name]]

InitSegments ==
    /\ CleanersIdle
    /\ seg \in {[prog |-> p, df |-> d, pc |-> "start", colors |-> <<>>,
                 segments |-> [name \in {} |-> {}], category |-> <<>>] :
                p \in {aan, spx}, d \in Products}
    /\ run = NotRun /\ tags = NotRun /\ bf = NotRun /\ wk = NotRun

SegAt(p, at) == seg.prog = p /\ seg.pc = at

SegStep(r) == seg' = r /\ UNCHANGED <<parseVars, pipeVars, run, tags, bf, wk>>

\* The colour of one point of the 'Performance Quadrants' plot
quadrant_colour(row, high_sessions_threshold, high_conversion_threshold) ==
    IF Ge(row.sessions_total, high_sessions_threshold)
       /\ Ge(row.conversion_rate, high_conversion_threshold) THEN "green"
    ELSE IF Ge(row.sessions_total, high_sessions_threshold)
            /\ Lt(row.conversion_rate, high_conversion_threshold) THEN "red"
    ELSE IF Lt(row.sessions_total, high_sessions_threshold)
            /\ Ge(row.conversion_rate, high_conversion_threshold) THEN "blue"
    ELSE "gray"

\* Plot 9 of create_comprehensive_dashboard
aan_create_comprehensive_dashboard ==
    /\ SegAt(aan, "start")
    /\ LET d == seg.df
           s == quantile(Column(d, "sessions_total"), 3, 4)
           c == quantile(Column(d, "conversion_rate"), 3, 4)
       IN  SegStep([seg EXCEPT !.colors = [n \in 1..Len(d) |-> quadrant_colour(d[n], s, c)],
                               !.pc = "dashboard"])

\* df[mask_sessions & mask_conversion] for the four pairs of masks
performance_segments(d, high_sessions, high_conversion) ==
    [name \in {"Star Performers", "Traffic Opportunities", "Conversion Stars", "Question Marks"} |->
        {n \in 1..Len(d) :
            /\ IF name \in {"Star Performers", "Traffic Opportunities"}
               THEN Ge(d[n].sessions_total, high_sessions)
               ELSE Lt(d[n].sessions_total, high_sessions)
            /\ IF name \in {"Star Performers", "Conversion Stars"}
               THEN Ge(d[n].conversion_rate, high_conversion)
               ELSE Lt(d[n].conversion_rate, high_conversion)}]

aan_analyze_performance_segments ==
    /\ SegAt(aan, "dashboard")
    /\ LET d == seg.df
       IN  SegStep([seg EXCEPT
              !.segments = performance_segments(d, quantile(Column(d, "sessions_total"), 3, 4),
                                                quantile(Column(d, "conversion_rate"), 3, 4)),
              !.pc = "done"])

\* load_and_clean_data keeps the rows whose conversion_rate is a finite
\* number; conversion_rate is units / sessions, NaN where sessions is NaN
spx_load_and_clean_data ==
    /\ SegAt(spx, "start")
    /\ SegStep([seg EXCEPT
           !.df = SelectSeq(@, LAMBDA row : /\ notna(row.conversion_rate)
                                           /\ isfinite(row.conversion_rate)
                                           /\ notna(row.sessions_total)),
           !.pc = "loaded"])

get_category(row, traffic_threshold, conversion_threshold) ==
    LET high_traffic == Ge(row.sessions_total, traffic_threshold)
        high_conversion == Ge(row.conversion_rate, conversion_threshold)
    IN  IF high_traffic /\ high_conversion THEN "Stars"
        ELSE IF high_traffic /\ ~high_conversion THEN "Problem Children"
        ELSE IF ~high_traffic /\ high_conversion THEN "Hidden Gems"
        ELSE "Dogs"

spx_categorize_products ==
    /\ SegAt(spx, "loaded")
    /\ LET d == seg.df
           t == quantile(Column(d, "sessions_total"), 7, 10)
           c == quantile(Column(d, "conversion_rate"), 7, 10)
       IN  SegStep([seg EXCEPT !.category = [n \in 1..Len(d) |-> get_category(d[n], t, c)],
                               !.pc = "done"])

NextSegments ==
    \/ aan_create_comprehensive_dashboard
    \/ aan_analyze_performance_segments
    \/ spx_load_and_clean_data
    \/ spx_categorize_products

SpecSegments == InitSegments /\ [][NextSegments]_vars

(* --------------------------- claims on the quadrants -------------------- *)

SegmentsOf(n) == {name \in DOMAIN seg.segments : n \in seg.segments[name]}

SegmentColour(name) ==
    CASE name = "Star Performers" -> "green"
      [] name = "Traffic Opportunities" -> "red"
      [] name = "Conversion Stars" -> "blue"
      [] OTHER -> "gray"

\* C22: after the segmentation every row of the input is in exactly one of
\* the four segments, and the dashboard gave it the colour of that segment;
\* categorize_products gives every row one of its four categories.
C22_QuadrantsPartition ==
    /\ SegAt(aan, "done") =>
          \A n \in 1..Len(seg.df) :
              /\ Cardinality(SegmentsOf(n)) = 1
              /\ \A name \in SegmentsOf(n) : seg.colors[n] = SegmentColour(name)
    /\ SegAt(spx, "done") =>
          /\ Len(seg.category) = Len(seg.df)
          /\ \A n \in 1..Len(seg.df) :
                seg.category[n] \in {"Stars", "Problem Children", "Hidden Gems", "Dogs"}

(* ================= weekly-sales-comparison.py: compare_weeks ============ *)

weekly == "weekly-sales-comparison"

MaxWeekRows == 2

\* 'Ordered Product Sales' after parse_currency, in pounds
SalesSamples == {0, 40, 100, 125, 160}

WeekRows == [asin : {"B0A", "B0B"}, sales : SalesSamples]

Weeks == UNION {[1..n -> WeekRows] : n \in 0..MaxWeekRows}

InitWeeks ==
    /\ CleanersIdle
    /\ wk \in {[prog |-> weekly, week28_df |-> a, week29_df |-> b, pc |-> "start",
                all_asins |-> {}, comparison_results |-> <<>>] :
               a \in Weeks, b \in Weeks}
    /\ run = NotRun /\ tags = NotRun /\ bf = NotRun /\ seg = NotRun

WkAt(at) == wk.prog = weekly /\ wk.pc = at

WkStep(r) == wk' = r /\ UNCHANGED <<parseVars, pipeVars, run, tags, bf, seg>>

\* set(df.index) after set_index('(Child) ASIN')
index(d) == {d[n].asin : n \in 1..Len(d)}

\* week_df.loc[asin], the first row when several rows carry the ASIN
loc_first(d, asin) == d[CHOOSE n \in 1..Len(d) : d[n].asin = asin /\ \A h \in 1..(n - 1) : d[h].asin # asin]

\* all_asins = set(week28_df.index) | set(week29_df.index)
wk_all_asins ==
    /\ WkAt("start")
    /\ WkStep([wk EXCEPT !.all_asins = index(wk.week28_df) \cup index(wk.week29_df),
                         !.pc = "loop"])

\* ((w29 - w28) / w28 * 100) if w28 > 0 else (100 if w29 > 0 else 0)
Sales_Change_Percent(week28_sales, week29_sales) ==
    IF week28_sales > 0 THEN Fin((week29_sales - week28_sales) * 100, week28_sales)
    ELSE IF week29_sales > 0 THEN Fin(100, 1) ELSE Zero

\* The if/elif chain of the status classification
Status(week28_sales, week29_sales) ==
    LET pct == Sales_Change_Percent(week28_sales, week29_sales)
    IN  IF week28_sales = 0 /\ week29_sales > 0 THEN "NEW_PRODUCT"
        ELSE IF week28_sales > 0 /\ week29_sales = 0 THEN "DISCONTINUED"
        ELSE IF pct.n > 50 * pct.d THEN "MAJOR_INCREASE"
        ELSE IF pct.n > 20 * pct.d THEN "INCREASE"
        ELSE IF pct.n < (-50) * pct.d THEN "MAJOR_DECREASE"
        ELSE IF pct.n < (-20) * pct.d THEN "DECREASE"
        ELSE "STABLE"

compare_asin(asin, week28_df, week29_df) ==
    LET week28_sales == IF asin \in index(week28_df) THEN loc_first(week28_df, asin).sales ELSE 0
        week29_sales == IF asin \in index(week29_df) THEN loc_first(week29_df, asin).sales ELSE 0
    IN  [ASIN |-> asin, Week28_Sales |-> week28_sales, Week29_Sales |-> week29_sales,
         Sales_Change |-> week29_sales - week28_sales,
         Sales_Change_Percent |-> Sales_Change_Percent(week28_sales, week29_sales),
         Status |-> Status(week28_sales, week29_sales)]

\* One turn of 'for asin in all_asins': a set is iterated in no fixed order
wk_compare_asin ==
    /\ WkAt("loop")
    /\ \E asin \in wk.all_asins :
          /\ \A k \in 1..Len(wk.comparison_results) : wk.comparison_results[k].ASIN # asin
          /\ WkStep([wk EXCEPT !.comparison_results =
                                   Append(@, compare_asin(asin, wk.week28_df, wk.week29_df))])

\* return pd.DataFrame(comparison_results)
wk_return ==
    /\ WkAt("loop")
    /\ wk.all_asins = {wk.comparison_results[k].ASIN : k \in 1..Len(wk.comparison_results)}
    /\ WkStep([wk EXCEPT !.pc = "done"])

NextWeeks ==
    \/ wk_all_asins
    \/ wk_compare_asin
    \/ wk_return

SpecWeeks == InitWeeks /\ [][NextWeeks]_vars

(* ------------------------ claims on the comparison ---------------------- *)

ByPercent(pct) ==
    IF pct.n > 50 * pct.d THEN "MAJOR_INCREASE"
    ELSE IF pct.n > 20 * pct.d THEN "INCREASE"
    ELSE IF pct.n < (-50) * pct.d THEN "MAJOR_DECREASE"
    ELSE IF pct.n < (-20) * pct.d THEN "DECREASE"
    ELSE "STABLE"

OneRowPerAsin ==
    /\ Len(wk.comparison_results) = Cardinality(index(wk.week28_df) \cup index(wk.week29_df))
    /\ \A asin \in index(wk.week28_df) \cup index(wk.week29_df) :
          \E k \in 1..Len(wk.comparison_results) : wk.comparison_results[k].ASIN = asin

\* C30: compare_weeks returns one row per ASIN of the two weeks; a row with
\* Status DISCONTINUED is of a product absent from week 29, a row with
\* Status NEW_PRODUCT is of a product absent from week 28, and a product of
\* both weeks has the status its percentage change gives.
C30_StatusMeaning ==
    WkAt("done") =>
        /\ OneRowPerAsin
        /\ \A k \in 1..Len(wk.comparison_results) :
              LET row == wk.comparison_results[k]
              IN  /\ row.Status = "DISCONTINUED" => row.ASIN \notin index(wk.week29_df)
                  /\ row.Status = "NEW_PRODUCT" => row.ASIN \notin index(wk.week28_df)
                  /\ (row.ASIN \in index(wk.week28_df) \cap index(wk.week29_df))
                        => row.Status = ByPercent(row.Sales_Change_Percent)

====
